---------------------------- MODULE Spec2Model ----------------------------
(***************************************************************************)
(* Campus room finder: geofence access control, point-in-polygon,          *)
(* bounding box, room search and suggestions, the loaders of rooms.json    *)
(* and of the boundary CSV, the walking route, and the application flow    *)
(* built on them.                                                          *)
(*                                                                         *)
(* Coordinates are exact numbers on an integer grid.  One grid step is     *)
(* `unit` times the 1e-12 that point_in_polygon adds to the denominator    *)
(* of its crossing test, so the test                                       *)
(*     x < (xj - xi) * (y - yi) / (yj - yi + 1e-12) + xi                   *)
(* is evaluated exactly, as a comparison of integers, for coordinates of   *)
(* the order of 1e-12 (unit = 1) and for coordinates to which 1e-12 is a   *)
(* perturbation that only decides ties (unit = CoarseUnit).                *)
(***************************************************************************)
EXTENDS Integers, Sequences, FiniteSets, TLC

VARIABLES
    campus_boundary,   \* AccessController.campus_boundary / app.campus_boundary
    unit,              \* grid step of the coordinates, in multiples of 1e-12
    rooms,             \* RoomSearchEngine.rooms (the list load_rooms returned)
    call,              \* the API call made last: its name and arguments
    ret,               \* what that call returned, or the exception it raised
    pc,                \* position of CampusRoomFinderApp in main()/run()
    gps,               \* what GPSManager.get_user_location() returned
    access,            \* what is_location_valid returned inside the app flow
    session_location,  \* st.session_state.user_location
    name_list,         \* RoomSearchEngine.room_names
    requests           \* the HTTP requests sent to the routing service, in order

vars == <<campus_boundary, unit, rooms, call, ret, pc, gps, access, session_location,
          name_list, requests>>

---------------------------------------------------------------------------
(* Bounds of the model *)

\* Coordinates range over 0..MaxCoord
MaxCoord == 2
\* A boundary polygon has at most MaxVerts vertices
MaxVerts == 3
\* One grid step is CoarseUnit * 1e-12 when 1e-12 is negligible
CoarseUnit == 1000

\* A room name or a query has at most MaxNameLen characters
MaxNameLen == 2
\* An index of the rooms "Library", "Lab 1", "Lab 2" has at most MaxNamedRooms
\* rooms
MaxNamedRooms == 3
\* The numbers written in a boundary file range over -1..MaxNumber
MaxNumber == 1
\* A boundary file has at most MaxRows rows
MaxRows == 3
\* The distance and the duration of a route differ from those of the
\* documented example (1234.5 m, 615 s) by at most MaxDeviation tenths
MaxDeviation == 60
\* rooms.json holds at most MaxRooms records
MaxRooms == 2

\* The 1e-12 of the crossing test, in multiples of 1e-12
EPS == 1

None == [none |-> TRUE]
\* An Optional value that is set
Some(v) == [some |-> v]
NoCall == [op |-> "none"]
NoRet == [exc |-> "none"]

Coords == 0..MaxCoord
Points == Coords \X Coords
Units == {1, CoarseUnit}

RECURSIVE SeqsUpTo(_, _)
SeqsUpTo(S, n) ==
    IF n = 0 THEN {<<>>}
    ELSE LET shorter == SeqsUpTo(S, n - 1)
         IN  shorter \cup {Append(s, e) : s \in {t \in shorter : Len(t) = n - 1}, e \in S}

Polygons == SeqsUpTo(Points, MaxVerts)

\* UserLocation(lat, lon)
UserLocation(lat, lon) == [lat |-> lat, lon |-> lon]
Locations == {UserLocation(p[1], p[2]) : p \in Points}

\* A value a function returned, and an exception it raised
Returned(v) == [exc |-> "none", val |-> v]
Raised(e) == [exc |-> e]

Reverse(s) == [i \in 1..Len(s) |-> s[Len(s) + 1 - i]]

---------------------------------------------------------------------------
(* GeometryUtils *)

\* (yi > y) != (yj > y): the short-circuit `and` evaluates the division only then
Straddles(y, yi, yj) == (yi > y) # (yj > y)

\* yj - yi + 1e-12, in multiples of 1e-12
Denominator(yi, yj, u) == (yj - yi) * u + EPS

\* x < (xj - xi) * (y - yi) / (yj - yi + 1e-12) + xi, for a non-zero denominator:
\* both sides multiplied by the denominator, the comparison turned when it is negative
CrossesRay(x, y, xi, yi, xj, yj, u) ==
    LET den == Denominator(yi, yj, u)
        num == (xj - xi) * (y - yi) * u
    IN  IF den > 0 THEN (x - xi) * den < num ELSE (x - xi) * den > num

\* The loop of point_in_polygon from index i on, j the previous index, inside the flag
RECURSIVE PipLoop(_, _, _, _, _, _, _)
PipLoop(x, y, poly, u, i, j, inside) ==
    IF i > Len(poly) THEN Returned(inside)
    ELSE LET xi == poly[i][2]
             yi == poly[i][1]
             xj == poly[j][2]
             yj == poly[j][1]
         IN  IF ~Straddles(y, yi, yj)
             THEN PipLoop(x, y, poly, u, i + 1, i, inside)
             ELSE IF Denominator(yi, yj, u) = 0
                  THEN Raised("ZeroDivisionError")
                  ELSE LET intersect == CrossesRay(x, y, xi, yi, xj, yj, u)
                       IN  PipLoop(x, y, poly, u, i + 1, i,
                                   IF intersect THEN ~inside ELSE inside)

\* point_in_polygon failing open: an empty polygon contains every point
point_in_polygon_open(lat, lon, poly, u) ==
    IF Len(poly) = 0 THEN Returned(TRUE)
    ELSE PipLoop(lon, lat, poly, u, 1, Len(poly), FALSE)

point_in_polygon(lat, lon, poly, u) ==
    IF Len(poly) = 0 THEN Returned(FALSE)
    ELSE PipLoop(lon, lat, poly, u, 1, Len(poly), FALSE)

\* min() and max() of a non-empty set of numbers
Min(S) == CHOOSE m \in S : \A e \in S : m <= e
Max(S) == CHOOSE m \in S : \A e \in S : m >= e

\* calculate_bounding_box taking the maximum latitude for both corners
calculate_bounding_box_maxlat(poly) ==
    IF poly = <<>> THEN <<<<0, 0>>, <<0, 0>>>>
    ELSE LET lats == {poly[i][1] : i \in 1..Len(poly)}
             lons == {poly[i][2] : i \in 1..Len(poly)}
         IN  <<<<Max(lats), Min(lons)>>, <<Max(lats), Max(lons)>>>>

calculate_bounding_box(poly) ==
    IF poly = <<>> THEN <<<<0, 0>>, <<0, 0>>>>
    ELSE LET lats == {poly[i][1] : i \in 1..Len(poly)}
             lons == {poly[i][2] : i \in 1..Len(poly)}
         IN  <<<<Min(lats), Min(lons)>>, <<Max(lats), Max(lons)>>>>

---------------------------------------------------------------------------
(* AccessController *)

GPS_UNAVAILABLE == "GPS is not available. This service is restricted to users physically within the MUT campus boundaries."
BOUNDARY_UNAVAILABLE == "Campus boundary data is not available."
OUTSIDE_BOUNDARY == "You are outside the MUT campus boundaries. This application is only accessible from within campus."

\* is_location_valid testing the boundary before the location
is_location_valid_boundary_first(boundary, location, u) ==
    IF boundary = <<>> THEN Returned(<<FALSE, BOUNDARY_UNAVAILABLE>>)
    ELSE IF location = None THEN Returned(<<FALSE, GPS_UNAVAILABLE>>)
    ELSE LET is_inside == point_in_polygon(location.lat, location.lon, boundary, u)
         IN  IF is_inside.exc # "none" THEN is_inside
             ELSE IF ~is_inside.val THEN Returned(<<FALSE, OUTSIDE_BOUNDARY>>)
             ELSE Returned(<<TRUE, "">>)

\* is_location_valid without its test for an empty boundary
is_location_valid_no_boundary_test(boundary, location, u) ==
    IF location = None THEN Returned(<<FALSE, GPS_UNAVAILABLE>>)
    ELSE LET is_inside == point_in_polygon(location.lat, location.lon, boundary, u)
         IN  IF is_inside.exc # "none" THEN is_inside
             ELSE IF ~is_inside.val THEN Returned(<<FALSE, OUTSIDE_BOUNDARY>>)
             ELSE Returned(<<TRUE, "">>)

is_location_valid(boundary, location, u) ==
    IF location = None THEN Returned(<<FALSE, GPS_UNAVAILABLE>>)
    ELSE IF boundary = <<>> THEN Returned(<<FALSE, BOUNDARY_UNAVAILABLE>>)
    ELSE LET is_inside == point_in_polygon(location.lat, location.lon, boundary, u)
         IN  IF is_inside.exc # "none" THEN is_inside
             ELSE IF ~is_inside.val THEN Returned(<<FALSE, OUTSIDE_BOUNDARY>>)
             ELSE Returned(<<TRUE, "">>)

---------------------------------------------------------------------------
(* The geometry and access-control API: one call on a loaded boundary.  The  *)
(* calls read campus_boundary and write nothing, so a behaviour is a boundary *)
(* and one call on it.                                                        *)

InitGeometry ==
    /\ campus_boundary \in Polygons
    /\ unit \in Units
    /\ rooms = <<>>
    /\ call = NoCall
    /\ ret = NoRet
    /\ pc = "api"
    /\ gps = None
    /\ access = NoRet
    /\ session_location = None
    /\ name_list = <<>>
    /\ requests = <<>>

CallIsLocationValid ==
    /\ call = NoCall
    /\ \E location \in Locations \cup {None} :
            /\ call' = [op |-> "is_location_valid", location |-> location]
            /\ ret' = is_location_valid(campus_boundary, location, unit)
            /\ UNCHANGED <<campus_boundary, unit, rooms, pc, gps, access, session_location, name_list, requests>>

CallPointInPolygon ==
    /\ call = NoCall
    /\ \E p \in Points :
            /\ call' = [op |-> "point_in_polygon", lat |-> p[1], lon |-> p[2]]
            /\ ret' = point_in_polygon(p[1], p[2], campus_boundary, unit)
            /\ UNCHANGED <<campus_boundary, unit, rooms, pc, gps, access, session_location, name_list, requests>>

CallCalculateBoundingBox ==
    /\ call = NoCall
    /\ call' = [op |-> "calculate_bounding_box"]
    /\ ret' = Returned(calculate_bounding_box(campus_boundary))
    /\ UNCHANGED <<campus_boundary, unit, rooms, pc, gps, access, session_location, name_list, requests>>

NextGeometry ==
    \/ CallIsLocationValid
    \/ CallPointInPolygon
    \/ CallCalculateBoundingBox

SpecGeometry == InitGeometry /\ [][NextGeometry]_vars

---------------------------------------------------------------------------
(* Claims about the access controller and the geometry *)

IsLocationValidCalled == call.op = "is_location_valid"
PointInPolygonCalled == call.op = "point_in_polygon"
BoundingBoxCalled == call.op = "calculate_bounding_box"

\* C2: is_location_valid(None) returns allowed = false with the
\* location-unavailable reason, whatever the boundary holds.
C2_NoLocationDenied ==
    (IsLocationValidCalled /\ call.location = None)
        => ret = Returned(<<FALSE, GPS_UNAVAILABLE>>)

\* is_location_valid(None) was called on a boundary of three vertices
C2_Witness ==
    /\ IsLocationValidCalled
    /\ call.location = None
    /\ Len(campus_boundary) = 3
    /\ ret.val[1] = FALSE

\* C3: for every present location an empty boundary denies with the
\* boundary-unavailable reason, which is not the outside-boundary reason.
C3_EmptyBoundaryDenied ==
    (IsLocationValidCalled /\ call.location # None /\ campus_boundary = <<>>)
        => /\ ret = Returned(<<FALSE, BOUNDARY_UNAVAILABLE>>)
           /\ ret.val[2] # OUTSIDE_BOUNDARY

\* is_location_valid was called with a location on an empty boundary
C3_Witness ==
    /\ IsLocationValidCalled
    /\ call.location # None
    /\ campus_boundary = <<>>
    /\ ret.val[1] = FALSE

\* The point of the call lies inside the boundary by the even-odd count of
\* the boundary's edges the ray crosses
InsideByCrossings(lat, lon, poly, u) ==
    LET n == Len(poly)
        prev(i) == IF i = 1 THEN n ELSE i - 1
        crossed == {i \in 1..n :
                       /\ Straddles(lat, poly[i][1], poly[prev(i)][1])
                       /\ CrossesRay(lon, lat, poly[i][2], poly[i][1],
                                     poly[prev(i)][2], poly[prev(i)][1], u)}
    IN  Cardinality(crossed) % 2 = 1

\* C4: is_location_valid returns (true, "") exactly when the location is
\* present, the boundary is non-empty and the point is in the polygon; in
\* every other case it returns false with a non-empty reason, the absent
\* location decided first and the empty boundary second; it never raises.
C4_OutcomeOrder ==
    IsLocationValidCalled =>
        /\ ret.exc = "none"
        /\ ret.val[1] \in BOOLEAN
        /\ ret.val[1] <=> /\ call.location # None
                           /\ campus_boundary # <<>>
                           /\ InsideByCrossings(call.location.lat, call.location.lon,
                                                campus_boundary, unit)
        /\ ret.val[1] => ret.val[2] = ""
        /\ ~ret.val[1] => ret.val[2] # ""
        /\ call.location = None => ret.val[2] = GPS_UNAVAILABLE
        /\ (call.location # None /\ campus_boundary = <<>>)
               => ret.val[2] = BOUNDARY_UNAVAILABLE
        /\ (call.location # None /\ campus_boundary # <<>> /\ ~ret.val[1])
               => ret.val[2] = OUTSIDE_BOUNDARY

\* C5: point_in_polygon(lat, lon, []) is false for every point.
C5_EmptyPolygonFalse ==
    (PointInPolygonCalled /\ campus_boundary = <<>>) => ret = Returned(FALSE)

\* point_in_polygon was called on the empty polygon
C5_Witness ==
    /\ PointInPolygonCalled
    /\ campus_boundary = <<>>
    /\ call.lat = MaxCoord
    /\ ret.exc = "none"

\* Twice the signed area of the triangle a, b, c
Cross(a, b, c) == (b[1] - a[1]) * (c[2] - a[2]) - (b[2] - a[2]) * (c[1] - a[1])

\* A polygon that turns at every vertex and has all its vertices on one side
\* of each of its edges
IsConvex(poly) ==
    LET n == Len(poly)
        next(i) == IF i = n THEN 1 ELSE i + 1
        side(i, k) == Cross(poly[i], poly[next(i)], poly[k])
    IN  /\ n >= 3
        /\ \A i \in 1..n : side(i, next(next(i))) # 0
        /\ \/ \A i, k \in 1..n : side(i, k) >= 0
           \/ \A i, k \in 1..n : side(i, k) <= 0

\* C6: for a convex polygon, point_in_polygon gives the same result on the
\* polygon and on the polygon with its vertices in reverse order.
C6_ReversalInvariant ==
    (PointInPolygonCalled /\ IsConvex(campus_boundary))
        => ret = point_in_polygon(call.lat, call.lon, Reverse(campus_boundary), unit)

\* C7: calculate_bounding_box([]) is [[0,0],[0,0]]; for a non-empty polygon
\* it is [[min_lat, min_lon], [max_lat, max_lon]], every vertex within it
\* and each side touched by a vertex.
C7_BoundingBox ==
    BoundingBoxCalled =>
        LET box == ret.val
            verts == {campus_boundary[i] : i \in 1..Len(campus_boundary)}
        IN  /\ ret.exc = "none"
            /\ campus_boundary = <<>> => box = <<<<0, 0>>, <<0, 0>>>>
            /\ \A v \in verts : /\ box[1][1] <= v[1] /\ v[1] <= box[2][1]
                                /\ box[1][2] <= v[2] /\ v[2] <= box[2][2]
            /\ campus_boundary # <<>> =>
                   /\ \E v \in verts : v[1] = box[1][1]
                   /\ \E v \in verts : v[2] = box[1][2]
                   /\ \E v \in verts : v[1] = box[2][1]
                   /\ \E v \in verts : v[2] = box[2][2]

\* calculate_bounding_box was called on a polygon that spans the grid
C7_Witness ==
    /\ BoundingBoxCalled
    /\ Len(campus_boundary) = 3
    /\ ret.val = <<<<0, 0>>, <<MaxCoord, MaxCoord>>>>

\* C28: on a boundary of exactly 1 or 2 vertices point_in_polygon returns
\* false for every point, and is_location_valid denies every present
\* location with the outside-boundary reason.
C28_DegenerateBoundaryDenied ==
    Len(campus_boundary) \in {1, 2} =>
        /\ PointInPolygonCalled => ret = Returned(FALSE)
        /\ (IsLocationValidCalled /\ call.location # None)
               => ret = Returned(<<FALSE, OUTSIDE_BOUNDARY>>)

---------------------------------------------------------------------------
(* point_in_polygon on closed polygons: the triangles of the grid and its   *)
(* axis-aligned rectangles, in both directions and from every corner        *)

Triangles == {poly \in Polygons : Len(poly) = 3}

Rectangles ==
    {<<<<a, b>>, <<a, d>>, <<c, d>>, <<c, b>>>> :
        a \in Coords, b \in Coords, c \in Coords, d \in Coords}
    \cup {<<<<a, b>>, <<c, b>>, <<c, d>>, <<a, d>>>> :
        a \in Coords, b \in Coords, c \in Coords, d \in Coords}

ClosedPolygons ==
    Triangles \cup {poly \in Rectangles : poly[1][1] # poly[3][1] /\ poly[1][2] # poly[3][2]}

InitRayCasting ==
    /\ campus_boundary \in ClosedPolygons
    /\ unit \in Units
    /\ rooms = <<>>
    /\ call = NoCall
    /\ ret = NoRet
    /\ pc = "api"
    /\ gps = None
    /\ access = NoRet
    /\ session_location = None
    /\ name_list = <<>>
    /\ requests = <<>>

NextRayCasting == CallPointInPolygon

SpecRayCasting == InitRayCasting /\ [][NextRayCasting]_vars

\* The ray from (x, y) toward increasing x meets the line through (xi, yi)
\* and (xj, yj), yi # yj, at a point beyond x
MeetsRay(x, y, xi, yi, xj, yj) ==
    IF yj > yi
    THEN (x - xi) * (yj - yi) < (xj - xi) * (y - yi)
    ELSE (x - xi) * (yj - yi) > (xj - xi) * (y - yi)

\* The ray crosses an odd number of the edges of the polygon: an edge is
\* crossed when its ends lie on the two sides of the ray's line (an end on
\* the line counts as below) and the ray meets it
OddCrossings(lat, lon, poly) ==
    LET n == Len(poly)
        prev(i) == IF i = 1 THEN n ELSE i - 1
        crossed == {i \in 1..n :
                       /\ Straddles(lat, poly[i][1], poly[prev(i)][1])
                       /\ MeetsRay(lon, lat, poly[i][2], poly[i][1],
                                   poly[prev(i)][2], poly[prev(i)][1])}
    IN  Cardinality(crossed) % 2 = 1

\* The point lies on an edge of the polygon
OnEdge(lat, lon, poly) ==
    LET n == Len(poly)
        prev(i) == IF i = 1 THEN n ELSE i - 1
        between(v, a, b) == (a <= v /\ v <= b) \/ (b <= v /\ v <= a)
    IN  \E i \in 1..n :
            /\ Cross(poly[prev(i)], poly[i], <<lat, lon>>) = 0
            /\ between(lat, poly[prev(i)][1], poly[i][1])
            /\ between(lon, poly[prev(i)][2], poly[i][2])

Lats(poly) == {poly[i][1] : i \in 1..Len(poly)}
Lons(poly) == {poly[i][2] : i \in 1..Len(poly)}

StrictlyInside(lat, lon, rectangle) ==
    /\ Min(Lats(rectangle)) < lat /\ lat < Max(Lats(rectangle))
    /\ Min(Lons(rectangle)) < lon /\ lon < Max(Lons(rectangle))

StrictlyOutside(lat, lon, rectangle) ==
    \/ lat < Min(Lats(rectangle)) \/ lat > Max(Lats(rectangle))
    \/ lon < Min(Lons(rectangle)) \/ lon > Max(Lons(rectangle))

\* C23: for a polygon of at least 3 vertices point_in_polygon returns true
\* exactly when the ray from the point toward increasing longitude crosses
\* an odd number of edges (tested for the points on no edge, where crossing
\* has one meaning); for an axis-aligned rectangle it returns true for every
\* point strictly inside and false for every point strictly outside, also on
\* the latitude of a vertex.
C23_RayCrossingParity ==
    PointInPolygonCalled =>
        /\ ~OnEdge(call.lat, call.lon, campus_boundary)
               => ret = Returned(OddCrossings(call.lat, call.lon, campus_boundary))
        /\ campus_boundary \in Rectangles =>
               /\ StrictlyInside(call.lat, call.lon, campus_boundary) => ret = Returned(TRUE)
               /\ StrictlyOutside(call.lat, call.lon, campus_boundary) => ret = Returned(FALSE)

---------------------------------------------------------------------------
(* Strings: a str is the sequence of its code points *)

\* "A", "a" and "b"
Alphabet == {65, 97, 98}
Strings == SeqsUpTo(Alphabet, MaxNameLen)

\* The room names "Library", "Lab 1", "Lab 2" and the queries "lib", "Lab"
Library == <<76, 105, 98, 114, 97, 114, 121>>
Lab1 == <<76, 97, 98, 32, 49>>
Lab2 == <<76, 97, 98, 32, 50>>
lib == <<108, 105, 98>>
Lab == <<76, 97, 98>>
NamedStrings == {Library, Lab1, Lab2, lib, Lab, <<>>}

\* str.lower()
LowerChar(c) == IF c >= 65 /\ c <= 90 THEN c + 32 ELSE c
Lower(str) == [i \in 1..Len(str) |-> LowerChar(str[i])]

\* a < b and a <= b of two str: by code point, a proper prefix first
RECURSIVE StrLess(_, _)
StrLess(a, b) ==
    IF b = <<>> THEN FALSE
    ELSE IF a = <<>> THEN TRUE
    ELSE IF a[1] # b[1] THEN a[1] < b[1]
    ELSE StrLess(Tail(a), Tail(b))

StrLessEq(a, b) == a = b \/ StrLess(a, b)

\* sub in str
Contains(str, sub) ==
    \E i \in 0..(Len(str) - Len(sub)) : SubSeq(str, i + 1, i + Len(sub)) = sub

---------------------------------------------------------------------------
(* Room and DataLoader.load_rooms *)

\* Room(room_name, building, floor, lat, lon) of a record that gives a name only
Room(name) == [room_name |-> name, building |-> <<>>, floor |-> <<>>, lat |-> None, lon |-> None]

RoomRecords == {Room(name) : name \in Strings}

\* lambda x: x.room_name.lower()
NameKey(room) == Lower(room.room_name)

\* The insertion of a sort whose key is the name itself, not lower-cased
RECURSIVE InsertByRawName(_, _)
InsertByRawName(sortedRooms, room) ==
    IF sortedRooms = <<>> THEN <<room>>
    ELSE LET last == sortedRooms[Len(sortedRooms)]
         IN  IF StrLessEq(last.room_name, room.room_name)
             THEN Append(sortedRooms, room)
             ELSE Append(InsertByRawName(SubSeq(sortedRooms, 1, Len(sortedRooms) - 1), room), last)

\* sorted(list, key=lambda x: x.room_name.lower()): a stable sort, each room
\* put behind the rooms before it whose key is not greater
RECURSIVE InsertByName(_, _)
InsertByName(sortedRooms, room) ==
    IF sortedRooms = <<>> THEN <<room>>
    ELSE LET last == sortedRooms[Len(sortedRooms)]
         IN  IF StrLessEq(NameKey(last), NameKey(room))
             THEN Append(sortedRooms, room)
             ELSE Append(InsertByName(SubSeq(sortedRooms, 1, Len(sortedRooms) - 1), room), last)

RECURSIVE SortedByName(_)
SortedByName(list) ==
    IF list = <<>> THEN <<>>
    ELSE InsertByName(SortedByName(SubSeq(list, 1, Len(list) - 1)), list[Len(list)])

\* load_rooms on a readable file of records: one Room per record, sorted by name
load_rooms(rooms_data) == SortedByName(rooms_data)

---------------------------------------------------------------------------
(* rooms.json as json.load reads it, and load_rooms on a file             *)

\* JSON values; an object is a function from its keys to values, a key it
\* lacks being either outside the domain or Absent
Absent == [absent |-> TRUE]
JNull == [json |-> "null"]
JNum(n) == [json |-> "number", n |-> n]
JStr(chars) == [json |-> "string", s |-> chars]
JList(items) == [json |-> "list", items |-> items]
JObject(fields) == [json |-> "object", fields |-> fields]

\* The keys of a dict
Keys(object) == {key \in DOMAIN object.fields : object.fields[key] # Absent}

\* The Python value of a JSON scalar: a str, an Optional number
PyValue(value) ==
    IF value.json = "string" THEN value.s
    ELSE IF value.json = "number" THEN Some(value.n)
    ELSE None

\* dict.get(key, default)
Get(object, key, default) ==
    IF key \in Keys(object) THEN PyValue(object.fields[key]) ELSE default

\* str(n) of a whole number
RECURSIVE Digits(_)
Digits(n) ==
    IF n < 0 THEN <<45>> \o Digits(-n)
    ELSE IF n < 10 THEN <<48 + n>>
    ELSE Digits(n \div 10) \o <<48 + (n % 10)>>

\* __post_init__ without its test for None: str(None) is "None"
PostInitFloorStr(object) ==
    IF "floor" \notin Keys(object) \/ object.fields["floor"].json = "null"
    THEN <<78, 111, 110, 101>>
    ELSE IF object.fields["floor"].json = "number" THEN Digits(object.fields["floor"].n)
    ELSE object.fields["floor"].s

\* Room.__post_init__: floor is "" for None and str(floor) otherwise
PostInitFloor(object) ==
    IF "floor" \notin Keys(object) \/ object.fields["floor"].json = "null" THEN <<>>
    ELSE IF object.fields["floor"].json = "number" THEN Digits(object.fields["floor"].n)
    ELSE object.fields["floor"].s

\* Room(room_name=room_data.get("room_name", ""), ..., lon=room_data.get("lon"))
MakeRoom(room_data) ==
    [room_name |-> Get(room_data, "room_name", <<>>),
     building |-> Get(room_data, "building", <<>>),
     floor |-> PostInitFloor(room_data),
     lat |-> Get(room_data, "lat", None),
     lon |-> Get(room_data, "lon", None)]

\* A record object with these fields
RoomObject(room_name, floor, lat, lon) ==
    JObject([room_name |-> room_name, building |-> Absent, floor |-> floor,
             lat |-> lat, lon |-> lon])

\* x.room_name.lower() works on a str only
HasStrName(room_data) ==
    "room_name" \notin Keys(room_data) \/ room_data.fields["room_name"].json = "string"

\* DataLoader.load_rooms on a file that is missing, is not JSON, or holds a
\* JSON value: the list it returns, or the exception that leaves it
load_rooms_from(file) ==
    IF file.state = "missing" THEN Returned(<<>>)
    ELSE IF file.state = "invalid_json" THEN Returned(<<>>)
    ELSE LET rooms_data == file.value
         IN  IF rooms_data.json \in {"number", "null"} THEN Raised("TypeError")
             ELSE IF rooms_data.json = "string"
             THEN IF rooms_data.s = <<>> THEN Returned(<<>>) ELSE Raised("AttributeError")
             ELSE IF rooms_data.json = "object"
             THEN IF Keys(rooms_data) = {} THEN Returned(<<>>) ELSE Raised("AttributeError")
             ELSE LET items == rooms_data.items
                  IN  IF \E i \in 1..Len(items) : items[i].json # "object"
                      THEN Raised("AttributeError")
                      ELSE IF \E i \in 1..Len(items) : ~HasStrName(items[i])
                      THEN Raised("AttributeError")
                      ELSE Returned(load_rooms([i \in 1..Len(items) |-> MakeRoom(items[i])]))

---------------------------------------------------------------------------
(* rapidfuzz.process.extract with its default scorer and with no           *)
(* preprocessing of the strings (rapidfuzz 3: the comparison is case       *)
(* sensitive).  Scores are in thousandths of a point, 0..100000, rounded   *)
(* down.                                                                   *)

FUZZY_MATCH_LIMIT == 5
FUZZY_MATCH_THRESHOLD == 60

\* Length of the longest common subsequence
RECURSIVE LCS(_, _)
LCS(a, b) ==
    IF a = <<>> \/ b = <<>> THEN 0
    ELSE IF a[1] = b[1] THEN 1 + LCS(Tail(a), Tail(b))
    ELSE LET skipA == LCS(Tail(a), b)
             skipB == LCS(a, Tail(b))
         IN  IF skipA >= skipB THEN skipA ELSE skipB

\* fuzz.ratio: the normalised indel similarity
Ratio(a, b) ==
    IF Len(a) + Len(b) = 0 THEN 100000
    ELSE (200000 * LCS(a, b)) \div (Len(a) + Len(b))

\* fuzz.partial_ratio: the best ratio of the shorter string against a window
\* of the longer one: the windows of its length, and the shorter prefixes and
\* suffixes of the longer string; both ways round for strings of one length
PartialRatioOf(short, long) ==
    LET n == Len(long)
        prefixes == {SubSeq(long, 1, j) : j \in 1..(Len(short) - 1)}
        full == {SubSeq(long, i, i + Len(short) - 1) : i \in 1..(n - Len(short) + 1)}
        suffixes == {SubSeq(long, i, n) : i \in (n - Len(short) + 1)..n}
    IN  Max({Ratio(short, w) : w \in {v \in prefixes \cup full \cup suffixes : Len(v) >= 1}})

PartialRatio(a, b) ==
    IF Len(a) < Len(b) THEN PartialRatioOf(a, b)
    ELSE IF Len(b) < Len(a) THEN PartialRatioOf(b, a)
    ELSE Max({PartialRatioOf(a, b), PartialRatioOf(b, a)})

\* The white space separated words of a string, in their order
RECURSIVE Tokens(_)
Tokens(str) ==
    IF str = <<>> THEN <<>>
    ELSE IF str[1] = 32 THEN Tokens(Tail(str))
    ELSE LET n == CHOOSE k \in 1..Len(str) :
                      /\ \A i \in 1..k : str[i] # 32
                      /\ k = Len(str) \/ str[k + 1] = 32
         IN  <<SubSeq(str, 1, n)>> \o Tokens(SubSeq(str, n + 1, Len(str)))

\* sorted(words), by code points
RECURSIVE InsertToken(_, _)
InsertToken(sortedTokens, token) ==
    IF sortedTokens = <<>> THEN <<token>>
    ELSE LET last == sortedTokens[Len(sortedTokens)]
         IN  IF StrLessEq(last, token) THEN Append(sortedTokens, token)
             ELSE Append(InsertToken(SubSeq(sortedTokens, 1, Len(sortedTokens) - 1), token), last)

RECURSIVE SortedTokens(_)
SortedTokens(tokens) ==
    IF tokens = <<>> THEN <<>>
    ELSE InsertToken(SortedTokens(SubSeq(tokens, 1, Len(tokens) - 1)), tokens[Len(tokens)])

\* The words of a set, sorted
RECURSIVE SortedTokenSet(_)
SortedTokenSet(tokenSet) ==
    IF tokenSet = {} THEN <<>>
    ELSE LET first == CHOOSE t \in tokenSet : \A other \in tokenSet : StrLessEq(t, other)
         IN  <<first>> \o SortedTokenSet(tokenSet \ {first})

\* " ".join(words)
RECURSIVE Join(_)
Join(tokens) ==
    IF tokens = <<>> THEN <<>>
    ELSE IF Len(tokens) = 1 THEN tokens[1]
    ELSE tokens[1] \o <<32>> \o Join(Tail(tokens))

TokenSet(str) == {Tokens(str)[i] : i \in 1..Len(Tokens(str))}

\* fuzz.token_sort_ratio
TokenSortRatio(a, b) == Ratio(Join(SortedTokens(Tokens(a))), Join(SortedTokens(Tokens(b))))

\* fuzz.token_set_ratio
TokenSetRatio(a, b) ==
    LET sect == TokenSet(a) \cap TokenSet(b)
        diff_ab == Join(SortedTokenSet(TokenSet(a) \ TokenSet(b)))
        diff_ba == Join(SortedTokenSet(TokenSet(b) \ TokenSet(a)))
        sect_len == Len(Join(SortedTokenSet(sect)))
        gap == IF sect_len = 0 THEN 0 ELSE 1
        sect_ab_len == sect_len + gap + Len(diff_ab)
        sect_ba_len == sect_len + gap + Len(diff_ba)
        dist == Len(diff_ab) + Len(diff_ba) - 2 * LCS(diff_ab, diff_ba)
        similarity(d, lensum) == IF lensum = 0 THEN 100000 ELSE (100000 * (lensum - d)) \div lensum
        result == similarity(dist, sect_ab_len + sect_ba_len)
    IN  IF TokenSet(a) = {} \/ TokenSet(b) = {} THEN 0
        ELSE IF sect # {} /\ (diff_ab = <<>> \/ diff_ba = <<>>) THEN 100000
        ELSE IF sect_len = 0 THEN result
        ELSE Max({result,
                  similarity(gap + Len(diff_ab), sect_len + sect_ab_len),
                  similarity(gap + Len(diff_ba), sect_len + sect_ba_len)})

\* fuzz.token_ratio
TokenRatio(a, b) == Max({TokenSortRatio(a, b), TokenSetRatio(a, b)})

\* fuzz.partial_token_ratio
PartialTokenRatio(a, b) ==
    LET sect == TokenSet(a) \cap TokenSet(b)
        diff_ab == Join(SortedTokenSet(TokenSet(a) \ TokenSet(b)))
        diff_ba == Join(SortedTokenSet(TokenSet(b) \ TokenSet(a)))
    IN  IF TokenSet(a) = {} \/ TokenSet(b) = {} THEN 0
        ELSE IF sect # {} THEN 100000
        ELSE Max({PartialRatio(Join(SortedTokens(Tokens(a))), Join(SortedTokens(Tokens(b)))),
                  PartialRatio(diff_ab, diff_ba)})

\* fuzz.WRatio
Score(query, choice) ==
    IF query = <<>> \/ choice = <<>> THEN 0
    ELSE LET longer == IF Len(query) >= Len(choice) THEN Len(query) ELSE Len(choice)
             shorter == IF Len(query) >= Len(choice) THEN Len(choice) ELSE Len(query)
             base == Ratio(query, choice)
         IN  IF 2 * longer < 3 * shorter
             THEN Max({base, (95 * TokenRatio(query, choice)) \div 100})
             ELSE LET scale == IF longer <= 8 * shorter THEN 9 ELSE 6
                  IN  Max({base,
                           (scale * PartialRatio(query, choice)) \div 10,
                           (scale * 95 * PartialTokenRatio(query, choice)) \div 1000})

\* The scores of all pairs of strings, computed once
ScoreTable ==
    [query \in Strings \cup NamedStrings |->
        [choice \in Strings \cup NamedStrings |-> Score(query, choice)]]

\* The matches (choice, score, index) in the order extract returns them: the
\* higher score first, the lower index first among equal scores
RECURSIVE InsertMatch(_, _)
InsertMatch(matches, m) ==
    IF matches = <<>> THEN <<m>>
    ELSE LET last == matches[Len(matches)]
         IN  IF last[2] >= m[2] THEN Append(matches, m)
             ELSE Append(InsertMatch(SubSeq(matches, 1, Len(matches) - 1), m), last)

RECURSIVE RankedMatches(_, _, _, _)
RankedMatches(query, choices, cutoff, n) ==
    IF n = 0 THEN <<>>
    ELSE LET before == RankedMatches(query, choices, cutoff, n - 1)
             score == ScoreTable[query][choices[n]]
         IN  IF score >= cutoff * 1000
             THEN InsertMatch(before, <<choices[n], score, n>>)
             ELSE before

\* process.extract(query, choices, limit=limit, score_cutoff=score_cutoff)
extract(query, choices, limit, score_cutoff) ==
    LET ranked == RankedMatches(query, choices, score_cutoff, Len(choices))
    IN  SubSeq(ranked, 1, IF Len(ranked) < limit THEN Len(ranked) ELSE limit)

---------------------------------------------------------------------------
(* RoomSearchEngine.  A list comprehension [room for room in list if test]  *)
(* is SelectSeq(list, test).                                               *)

\* self.room_names
room_names(engineRooms) == [i \in 1..Len(engineRooms) |-> engineRooms[i].room_name]

\* {room.room_name: room for room in list}.values(): a name keeps the place
\* of its first room and the value of its last
DictValues(list) ==
    LET firsts == SelectSeq([i \in 1..Len(list) |-> [at |-> i, room |-> list[i]]],
                         LAMBDA e : \A k \in 1..(e.at - 1) :
                                        list[k].room_name # e.room.room_name)
        lastOf(name) == list[Max({k \in 1..Len(list) : list[k].room_name = name})]
    IN  [i \in 1..Len(firsts) |-> lastOf(firsts[i].room.room_name)]

\* search whose fuzzy step passes no score_cutoff
search_no_cutoff(engineRooms, query, fuzzy_limit, fuzzy_threshold) ==
    IF query = <<>> THEN engineRooms
    ELSE LET query_lower == Lower(query)
             substring_matches ==
                 SelectSeq(engineRooms, LAMBDA room : Contains(Lower(room.room_name), query_lower))
             fuzzy_matches == extract(query, room_names(engineRooms), fuzzy_limit, 0)
             fuzzy_names == {fuzzy_matches[i][1] : i \in 1..Len(fuzzy_matches)}
             fuzzy_rooms == SelectSeq(engineRooms, LAMBDA room : room.room_name \in fuzzy_names)
             combined_rooms == DictValues(substring_matches \o fuzzy_rooms)
         IN  SortedByName(combined_rooms)

\* search without the fuzzy matches
search_substring_only(engineRooms, query, fuzzy_limit, fuzzy_threshold) ==
    IF query = <<>> THEN engineRooms
    ELSE LET query_lower == Lower(query)
             substring_matches ==
                 SelectSeq(engineRooms, LAMBDA room : Contains(Lower(room.room_name), query_lower))
         IN  SortedByName(DictValues(substring_matches))

search(engineRooms, query, fuzzy_limit, fuzzy_threshold) ==
    IF query = <<>> THEN engineRooms
    ELSE LET query_lower == Lower(query)
             substring_matches ==
                 SelectSeq(engineRooms, LAMBDA room : Contains(Lower(room.room_name), query_lower))
             fuzzy_matches ==
                 extract(query, room_names(engineRooms), fuzzy_limit, fuzzy_threshold)
             fuzzy_names == {fuzzy_matches[i][1] : i \in 1..Len(fuzzy_matches)}
             fuzzy_rooms == SelectSeq(engineRooms, LAMBDA room : room.room_name \in fuzzy_names)
             combined_rooms == DictValues(substring_matches \o fuzzy_rooms)
         IN  SortedByName(combined_rooms)

---------------------------------------------------------------------------
(* The search API: an engine built from the rooms load_rooms returned, and  *)
(* one call on it.                                                          *)

Limits == {1, FUZZY_MATCH_LIMIT}

InitSearch ==
    /\ \E rooms_data \in SeqsUpTo(RoomRecords, MaxRooms) : rooms = load_rooms(rooms_data)
    /\ campus_boundary = <<>>
    /\ unit = 1
    /\ call = NoCall
    /\ ret = NoRet
    /\ pc = "api"
    /\ gps = None
    /\ access = NoRet
    /\ session_location = None
    /\ name_list = room_names(rooms)
    /\ requests = <<>>

CallSearch ==
    /\ call = NoCall
    /\ \E query \in Strings, fuzzy_limit \in Limits :
            /\ call' = [op |-> "search", query |-> query, fuzzy_limit |-> fuzzy_limit,
                        fuzzy_threshold |-> FUZZY_MATCH_THRESHOLD]
            /\ ret' = Returned(search(rooms, query, fuzzy_limit, FUZZY_MATCH_THRESHOLD))
            /\ UNCHANGED <<campus_boundary, unit, rooms, pc, gps, access, session_location, name_list, requests>>

NextSearch == CallSearch

SpecSearch == InitSearch /\ [][NextSearch]_vars

---------------------------------------------------------------------------
(* Claims about the search *)

SearchCalled == call.op = "search"

ElementsOf(list) == {list[i] : i \in 1..Len(list)}
NamesOf(list) == {list[i].room_name : i \in 1..Len(list)}

\* No two entries of the list have the same room_name
NoDuplicateNames(list) ==
    \A i, j \in 1..Len(list) : i # j => list[i].room_name # list[j].room_name

\* The list ascends by lower-cased room_name
AscendingByName(list) ==
    \A i \in 1..(Len(list) - 1) : StrLessEq(NameKey(list[i]), NameKey(list[i + 1]))

\* C8: search("") returns every room of the index, ascending by
\* case-insensitive name, no two returned entries with the same name.
C8_EmptyQueryAllSortedUnique ==
    (SearchCalled /\ call.query = <<>>) =>
        /\ ElementsOf(ret.val) = ElementsOf(rooms)
        /\ AscendingByName(ret.val)
        /\ NoDuplicateNames(ret.val)

\* C9: for every query, empty or not, search never returns two rooms with
\* the same room_name.
C9_NoDuplicateNames ==
    SearchCalled => NoDuplicateNames(ret.val)

\* The room names the fuzzy match selects: of the names scoring at least the
\* threshold, those that fewer than fuzzy_limit entries outrank (an entry
\* outranks another by a higher score or, at equal scores, by coming first)
FuzzySelected(engineRooms, query, fuzzy_limit, fuzzy_threshold) ==
    LET scoreAt == [i \in 1..Len(engineRooms) |-> ScoreTable[query][engineRooms[i].room_name]]
        qualifying == {i \in 1..Len(engineRooms) : scoreAt[i] >= fuzzy_threshold * 1000}
        outranking(i) == {k \in qualifying :
                             \/ scoreAt[k] > scoreAt[i]
                             \/ scoreAt[k] = scoreAt[i] /\ k < i}
    IN  {engineRooms[i].room_name :
            i \in {k \in qualifying : Cardinality(outranking(k)) < fuzzy_limit}}

\* The names of the rooms whose name contains the query, ignoring case
SubstringNames(engineRooms, query) ==
    {name \in NamesOf(engineRooms) : Contains(Lower(name), Lower(query))}

\* C10: for a non-empty query search returns rooms of the index whose names
\* are exactly the names containing the query (case-insensitively) together
\* with the names the fuzzy match selects, each name once, ascending by
\* case-insensitive name.
C10_UnionOfSubstringAndFuzzy ==
    (SearchCalled /\ call.query # <<>>) =>
        LET fuzzy == FuzzySelected(rooms, call.query, call.fuzzy_limit, call.fuzzy_threshold)
        IN  /\ NamesOf(ret.val) = SubstringNames(rooms, call.query) \cup fuzzy
            /\ Cardinality(fuzzy) <= call.fuzzy_limit
            /\ ElementsOf(ret.val) \subseteq ElementsOf(rooms)
            /\ NoDuplicateNames(ret.val)
            /\ AscendingByName(ret.val)

\* A search returned a room whose name contains the query and a room that
\* only the fuzzy match selected
C10_Witness ==
    /\ SearchCalled
    /\ call.query # <<>>
    /\ \E name \in NamesOf(ret.val) : Contains(Lower(name), Lower(call.query))
    /\ \E name \in NamesOf(ret.val) : ~Contains(Lower(name), Lower(call.query))

---------------------------------------------------------------------------
(* RoomSearchEngine.get_fuzzy_suggestions, on the engine of the search API *)

\* get_fuzzy_suggestions that passes no limit to process.extract
get_fuzzy_suggestions_unlimited(engineRooms, query, limit, threshold) ==
    IF query = <<>> THEN <<>>
    ELSE LET fuzzy_matches ==
                 extract(query, room_names(engineRooms), Len(engineRooms), threshold)
         IN  [i \in 1..Len(fuzzy_matches) |-> fuzzy_matches[i][1]]

\* RoomSearchEngine.get_fuzzy_suggestions
get_fuzzy_suggestions(engineRooms, query, limit, threshold) ==
    IF query = <<>> THEN <<>>
    ELSE LET fuzzy_matches == extract(query, room_names(engineRooms), limit, threshold)
         IN  [i \in 1..Len(fuzzy_matches) |-> fuzzy_matches[i][1]]

\* The queries suggestions are asked for: the strings in lower case
SuggestionQueries == SeqsUpTo({c \in Alphabet : LowerChar(c) = c}, MaxNameLen)

CallGetFuzzySuggestions ==
    /\ call = NoCall
    /\ \E query \in SuggestionQueries, limit \in Limits :
            /\ call' = [op |-> "get_fuzzy_suggestions", query |-> query, limit |-> limit,
                        threshold |-> FUZZY_MATCH_THRESHOLD]
            /\ ret' = Returned(get_fuzzy_suggestions(rooms, query, limit, FUZZY_MATCH_THRESHOLD))
            /\ UNCHANGED <<campus_boundary, unit, rooms, pc, gps, access, session_location, name_list, requests>>

NextSuggestions == CallGetFuzzySuggestions

SpecSuggestions == InitSearch /\ [][NextSuggestions]_vars

SuggestionsCalled == call.op = "get_fuzzy_suggestions"

\* C12: get_fuzzy_suggestions returns at most limit room names, each scoring
\* at least threshold against the query, in descending order of score; for a
\* non-empty query they are the names the fuzzy step of search selects with
\* the same limit and threshold.
C12_SuggestionsRanked ==
    SuggestionsCalled =>
        LET names == ret.val
            score(i) == ScoreTable[call.query][names[i]]
        IN  /\ ret.exc = "none"
            /\ Len(names) <= call.limit
            /\ \A i \in 1..Len(names) :
                   /\ names[i] \in NamesOf(rooms)
                   /\ score(i) >= call.threshold * 1000
            /\ \A i \in 1..(Len(names) - 1) : score(i) >= score(i + 1)
            /\ call.query # <<>> =>
                   /\ {names[i] : i \in 1..Len(names)}
                          = FuzzySelected(rooms, call.query, call.limit, call.threshold)
                   /\ NamesOf(search(rooms, call.query, call.limit, call.threshold))
                          = SubstringNames(rooms, call.query) \cup {names[i] : i \in 1..Len(names)}

\* Two suggestions were returned, the first scoring higher than the second
C12_Witness ==
    /\ SuggestionsCalled
    /\ call.query # <<>>
    /\ Len(ret.val) = 2
    /\ ScoreTable[call.query][ret.val[1]] > ScoreTable[call.query][ret.val[2]]

---------------------------------------------------------------------------
(* The search API on an index of the rooms "Library", "Lab 1" and "Lab 2"  *)

NamedRooms == {Room(Library), Room(Lab1), Room(Lab2)}
NamedQueries == {lib, Lab, Lab1, <<>>}

InitNamedRooms ==
    /\ \E rooms_data \in SeqsUpTo(NamedRooms, MaxNamedRooms) : rooms = load_rooms(rooms_data)
    /\ campus_boundary = <<>>
    /\ unit = 1
    /\ call = NoCall
    /\ ret = NoRet
    /\ pc = "api"
    /\ gps = None
    /\ access = NoRet
    /\ session_location = None
    /\ name_list = room_names(rooms)
    /\ requests = <<>>

CallSearchNamed ==
    /\ call = NoCall
    /\ \E query \in NamedQueries, fuzzy_limit \in Limits :
            /\ call' = [op |-> "search", query |-> query, fuzzy_limit |-> fuzzy_limit,
                        fuzzy_threshold |-> FUZZY_MATCH_THRESHOLD]
            /\ ret' = Returned(search(rooms, query, fuzzy_limit, FUZZY_MATCH_THRESHOLD))
            /\ UNCHANGED <<campus_boundary, unit, rooms, pc, gps, access, session_location, name_list, requests>>

NextNamedRooms == CallSearchNamed

SpecNamedRooms == InitNamedRooms /\ [][NextNamedRooms]_vars

\* search("lib") was called, with fuzzy limit 5 and threshold 60, on an index
\* whose room names are "Library", "Lab 1" and "Lab 2"
LibSearched ==
    /\ SearchCalled
    /\ NamesOf(rooms) = {Library, Lab1, Lab2}
    /\ call.query = lib
    /\ call.fuzzy_limit = 5
    /\ call.fuzzy_threshold = 60

---------------------------------------------------------------------------
(* Concurrent callers of one RoomSearchEngine and one AccessController.    *)
(* Each caller runs its calls one after the other; the statements of the    *)
(* calls of different callers interleave.  Here call, ret and pc hold one   *)
(* value per caller, and the locals of a running call are in its call       *)
(* record.                                                                   *)

\* Concurrent callers
MaxCallers == 2
Callers == 1..MaxCallers

\* [room for room in self.rooms if query_lower in room.room_name.lower()]
SubstringMatches(engineRooms, query) ==
    SelectSeq(engineRooms, LAMBDA room : Contains(Lower(room.room_name), Lower(query)))

\* The last statements of search, which leave the fuzzy rooms unsorted
CombineUnsorted(engineRooms, substring_matches, fuzzy_matches) ==
    LET fuzzy_names == {fuzzy_matches[i][1] : i \in 1..Len(fuzzy_matches)}
        fuzzy_rooms == SelectSeq(engineRooms, LAMBDA room : room.room_name \in fuzzy_names)
    IN  Reverse(DictValues(substring_matches \o fuzzy_rooms))

\* The last statements of search: fuzzy_names, fuzzy_rooms, combined_rooms
\* and the sorted list returned
Combine(engineRooms, substring_matches, fuzzy_matches) ==
    LET fuzzy_names == {fuzzy_matches[i][1] : i \in 1..Len(fuzzy_matches)}
        fuzzy_rooms == SelectSeq(engineRooms, LAMBDA room : room.room_name \in fuzzy_names)
    IN  SortedByName(DictValues(substring_matches \o fuzzy_rooms))

\* The engines and controllers constructed: over some of the named rooms,
\* with no boundary or with a triangle
SharedRooms ==
    {load_rooms(rooms_data) :
        rooms_data \in {<<>>, <<Room(Library), Room(Lab1)>>,
                        <<Room(Library), Room(Lab1), Room(Lab2)>>}}
SharedBoundaries == {<<>>, <<<<0, 0>>, <<0, MaxCoord>>, <<MaxCoord, 0>>>>}
SharedQueries == {<<>>, lib, Lab}
SharedLocations == {None, UserLocation(0, 0), UserLocation(MaxCoord, MaxCoord)}

InitConcurrent ==
    /\ rooms \in SharedRooms
    /\ name_list = room_names(rooms)
    /\ campus_boundary \in SharedBoundaries
    /\ unit = CoarseUnit
    /\ call = [c \in Callers |-> NoCall]
    /\ ret = [c \in Callers |-> NoRet]
    /\ pc = [c \in Callers |-> "idle"]
    /\ gps = None
    /\ access = NoRet
    /\ session_location = None
    /\ requests = <<>>

\* search up to substring_matches; an empty query returns self.rooms.copy()
SearchBegin(c) ==
    /\ pc[c] = "idle"
    /\ \E query \in SharedQueries :
            IF query = <<>>
            THEN /\ call' = [call EXCEPT ![c] = [op |-> "search", query |-> query]]
                 /\ ret' = [ret EXCEPT ![c] = Returned(rooms)]
                 /\ UNCHANGED pc
            ELSE /\ call' = [call EXCEPT ![c] =
                                [op |-> "search", query |-> query,
                                 substring_matches |-> SubstringMatches(rooms, query)]]
                 /\ ret' = [ret EXCEPT ![c] = NoRet]
                 /\ pc' = [pc EXCEPT ![c] = "fuzzy_matches"]
    /\ UNCHANGED <<campus_boundary, unit, rooms, gps, access, session_location, name_list,
                   requests>>

\* fuzzy_matches = process.extract(query, self.room_names, ...)
SearchExtract(c) ==
    /\ pc[c] = "fuzzy_matches"
    /\ call' = [call EXCEPT ![c] =
                   [op |-> "search", query |-> call[c].query,
                    substring_matches |-> call[c].substring_matches,
                    fuzzy_matches |-> extract(call[c].query, name_list, FUZZY_MATCH_LIMIT,
                                              FUZZY_MATCH_THRESHOLD)]]
    /\ pc' = [pc EXCEPT ![c] = "fuzzy_rooms"]
    /\ UNCHANGED <<campus_boundary, unit, rooms, ret, gps, access, session_location,
                   name_list, requests>>

\* search from fuzzy_names to its return
SearchReturn(c) ==
    /\ pc[c] = "fuzzy_rooms"
    /\ ret' = [ret EXCEPT ![c] =
                  Returned(Combine(rooms, call[c].substring_matches, call[c].fuzzy_matches))]
    /\ pc' = [pc EXCEPT ![c] = "idle"]
    /\ UNCHANGED <<campus_boundary, unit, rooms, call, gps, access, session_location,
                   name_list, requests>>

\* get_fuzzy_suggestions, which reads self.room_names once
Suggest(c) ==
    /\ pc[c] = "idle"
    /\ \E query \in SharedQueries :
            /\ call' = [call EXCEPT ![c] = [op |-> "get_fuzzy_suggestions", query |-> query]]
            /\ ret' = [ret EXCEPT ![c] =
                          IF query = <<>> THEN Returned(<<>>)
                          ELSE LET fuzzy_matches == extract(query, name_list, FUZZY_MATCH_LIMIT,
                                                            FUZZY_MATCH_THRESHOLD)
                               IN  Returned([i \in 1..Len(fuzzy_matches) |->
                                                fuzzy_matches[i][1]])]
    /\ UNCHANGED <<campus_boundary, unit, rooms, pc, gps, access, session_location,
                   name_list, requests>>

\* is_location_valid up to its test of self.campus_boundary
ValidBegin(c) ==
    /\ pc[c] = "idle"
    /\ \E location \in SharedLocations :
            /\ call' = [call EXCEPT ![c] = [op |-> "is_location_valid", location |-> location]]
            /\ IF location = None
               THEN /\ ret' = [ret EXCEPT ![c] = Returned(<<FALSE, GPS_UNAVAILABLE>>)]
                    /\ UNCHANGED pc
               ELSE IF campus_boundary = <<>>
               THEN /\ ret' = [ret EXCEPT ![c] = Returned(<<FALSE, BOUNDARY_UNAVAILABLE>>)]
                    /\ UNCHANGED pc
               ELSE /\ ret' = [ret EXCEPT ![c] = NoRet]
                    /\ pc' = [pc EXCEPT ![c] = "is_inside"]
    /\ UNCHANGED <<campus_boundary, unit, rooms, gps, access, session_location, name_list,
                   requests>>

\* is_location_valid from point_in_polygon(..., self.campus_boundary) on
ValidReturn(c) ==
    /\ pc[c] = "is_inside"
    /\ ret' = [ret EXCEPT ![c] = is_location_valid(campus_boundary, call[c].location, unit)]
    /\ pc' = [pc EXCEPT ![c] = "idle"]
    /\ UNCHANGED <<campus_boundary, unit, rooms, call, gps, access, session_location,
                   name_list, requests>>

NextConcurrent ==
    \E c \in Callers :
        \/ SearchBegin(c)
        \/ SearchExtract(c)
        \/ SearchReturn(c)
        \/ Suggest(c)
        \/ ValidBegin(c)
        \/ ValidReturn(c)

SpecConcurrent == InitConcurrent /\ [][NextConcurrent]_vars

\* The call of caller c has ended
Ended(c) == call[c] # NoCall /\ pc[c] = "idle"

\* What the call of caller c returns when it runs alone on the objects
Alone(c) ==
    IF call[c].op = "search"
    THEN Returned(search(rooms, call[c].query, FUZZY_MATCH_LIMIT, FUZZY_MATCH_THRESHOLD))
    ELSE IF call[c].op = "get_fuzzy_suggestions"
    THEN Returned(get_fuzzy_suggestions(rooms, call[c].query, FUZZY_MATCH_LIMIT,
                                        FUZZY_MATCH_THRESHOLD))
    ELSE is_location_valid(campus_boundary, call[c].location, unit)

\* room_names lists the names of rooms, and every call that has ended
\* returned what it returns run alone
ResultsAsAlone ==
    /\ name_list = room_names(rooms)
    /\ \A c \in Callers : Ended(c) => ret[c] = Alone(c)

---------------------------------------------------------------------------
(* The text of a CSV field.  A text is a sequence of tokens: the word      *)
(* POINT (in either case), the brackets, a comma, white space, some other  *)
(* word, a number written with a decimal point ("-0.748") and a number     *)
(* written without one ("37").  A field of a row is None (the row has no   *)
(* such column or too few fields) or Str(text).                            *)

Tok(kind) == [t |-> kind, v |-> 0]
Dec(v) == [t |-> "dec", v |-> v]
Whole(v) == [t |-> "int", v |-> v]
WS == Tok(" ")
Str(text) == [str |-> text]

Numbers == (-1)..MaxNumber

\* str.strip()
RECURSIVE strip(_)
strip(text) ==
    IF text = <<>> THEN <<>>
    ELSE IF text[1] = WS THEN strip(Tail(text))
    ELSE IF text[Len(text)] = WS THEN strip(SubSeq(text, 1, Len(text) - 1))
    ELSE text

\* float(text): the number a str denotes, or ValueError
float(text) ==
    LET stripped == strip(text)
    IN  IF Len(stripped) = 1 /\ stripped[1].t \in {"dec", "int"}
        THEN Returned(stripped[1].v)
        ELSE Raised("ValueError")

\* a or b
Or(a, b) == IF a # None /\ a # Str(<<>>) THEN a ELSE b

\* The first position from i on that holds none of the separators
RECURSIVE Skip(_, _, _)
Skip(text, i, separators) ==
    IF i <= Len(text) /\ text[i].t \in separators THEN Skip(text, i + 1, separators) ELSE i

HasTok(text, i, kinds) == i >= 1 /\ i <= Len(text) /\ text[i].t \in kinds

\* The match of POINT\s*\(\s*(-?\d+\.\d+)\s+(-?\d+\.\d+)\s*\) at position i,
\* ignoring case: the positions of its two groups, or None
PointAt(text, i) ==
    LET open == Skip(text, i + 1, {" "})
        first == Skip(text, open + 1, {" "})
        second == Skip(text, first + 1, {" "})
        close == Skip(text, second + 1, {" "})
    IN  IF /\ HasTok(text, i, {"POINT", "point"})
           /\ HasTok(text, open, {"("})
           /\ HasTok(text, first, {"dec"})
           /\ second > first + 1
           /\ HasTok(text, second, {"dec"})
           /\ HasTok(text, close, {")"})
        THEN Some(<<text[first], text[second]>>)
        ELSE None

\* The match of (-?\d+\.\d+)[,\s]+(-?\d+\.\d+) at position i
PairAt(text, i) ==
    LET second == Skip(text, i + 1, {" ", ","})
    IN  IF /\ HasTok(text, i, {"dec"})
           /\ second > i + 1
           /\ HasTok(text, second, {"dec"})
        THEN Some(<<text[i], text[second]>>)
        ELSE None

\* re.search: the leftmost match, or None
SearchPoint(text) ==
    LET found == {i \in 1..Len(text) : PointAt(text, i) # None}
    IN  IF found = {} THEN None ELSE PointAt(text, Min(found))

SearchPair(text) ==
    LET found == {i \in 1..Len(text) : PairAt(text, i) # None}
    IN  IF found = {} THEN None ELSE PairAt(text, Min(found))

---------------------------------------------------------------------------
(* DataLoader._parse_coordinate_row and DataLoader.load_campus_boundary    *)

\* _parse_coordinate_row that tries the lat/lon columns before the WKT field
parse_coordinate_row_columns_first(row) ==
    LET wkt == strip(Or(Or(row.WKT, row.wkt), Str(<<>>)).str)
        strict == SearchPoint(wkt)
        m == IF strict # None THEN strict ELSE SearchPair(wkt)
        lat == Or(Or(row.lat, row.latitude), row.y)
        lon == Or(Or(row.lon, row.longitude), row.x)
    IN  IF /\ lat # None /\ lon # None
           /\ float(lat.str).exc = "none" /\ float(lon.str).exc = "none"
        THEN Returned(<<float(lat.str).val, float(lon.str).val>>)
        ELSE IF wkt # <<>> /\ m # None
        THEN Returned(<<float(<<m.some[2]>>).val, float(<<m.some[1]>>).val>>)
        ELSE Raised("ValueError")

\* DataLoader._parse_coordinate_row: the (lat, lon) it returns, or ValueError
parse_coordinate_row(row) ==
    LET wkt == strip(Or(Or(row.WKT, row.wkt), Str(<<>>)).str)
        strict == SearchPoint(wkt)
        m == IF strict # None THEN strict ELSE SearchPair(wkt)
        lat == Or(Or(row.lat, row.latitude), row.y)
        lon == Or(Or(row.lon, row.longitude), row.x)
    IN  IF wkt # <<>> /\ m # None
        THEN LET lon_wkt == float(<<m.some[1]>>).val
                 lat_wkt == float(<<m.some[2]>>).val
             IN  Returned(<<lat_wkt, lon_wkt>>)
        ELSE IF lat = None \/ lon = None THEN Raised("ValueError")
        ELSE IF float(lat.str).exc # "none" \/ float(lon.str).exc # "none"
             THEN Raised("ValueError")
        ELSE Returned(<<float(lat.str).val, float(lon.str).val>>)

\* What csv.DictReader yields in place of a row when reading fails there
\* (csv.Error, a decoding error, an I/O error)
ReaderError == [reader_error |-> TRUE]

\* The loop over the rows that stops at the first row it cannot parse
RECURSIVE ReadRowsStopping(_, _)
ReadRowsStopping(entries, n) ==
    IF n = 0 THEN [poly |-> <<>>, printed |-> <<>>, failed |-> FALSE]
    ELSE LET before == ReadRowsStopping(entries, n - 1)
         IN  IF before.failed THEN before
             ELSE IF entries[n] = ReaderError
             THEN [before EXCEPT !.failed = TRUE,
                                 !.printed = Append(@, "Error loading boundary data")]
             ELSE IF parse_coordinate_row(entries[n]).exc = "none"
             THEN [before EXCEPT !.poly = Append(@, parse_coordinate_row(entries[n]).val)]
             ELSE [before EXCEPT !.failed = TRUE,
                                 !.printed = Append(@, "Skipping invalid coordinate row")]

\* The loop over the rows that puts each vertex in front of the list
RECURSIVE ReadRowsPrepending(_, _)
ReadRowsPrepending(entries, n) ==
    IF n = 0 THEN [poly |-> <<>>, printed |-> <<>>, failed |-> FALSE]
    ELSE LET before == ReadRowsPrepending(entries, n - 1)
         IN  IF before.failed THEN before
             ELSE IF entries[n] = ReaderError
             THEN [before EXCEPT !.failed = TRUE,
                                 !.printed = Append(@, "Error loading boundary data")]
             ELSE IF parse_coordinate_row(entries[n]).exc = "none"
             THEN [before EXCEPT !.poly = <<parse_coordinate_row(entries[n]).val>> \o @]
             ELSE [before EXCEPT !.printed = Append(@, "Skipping invalid coordinate row")]

\* The loop of load_campus_boundary over the first n rows of the file: the
\* polygon so far, the lines printed, and whether the outer except clause
\* has ended the loop
RECURSIVE ReadRows(_, _)
ReadRows(entries, n) ==
    IF n = 0 THEN [poly |-> <<>>, printed |-> <<>>, failed |-> FALSE]
    ELSE LET before == ReadRows(entries, n - 1)
         IN  IF before.failed THEN before
             ELSE IF entries[n] = ReaderError
             THEN [before EXCEPT !.failed = TRUE,
                                 !.printed = Append(@, "Error loading boundary data")]
             ELSE IF parse_coordinate_row(entries[n]).exc = "none"
             THEN [before EXCEPT !.poly = Append(@, parse_coordinate_row(entries[n]).val)]
             ELSE [before EXCEPT !.printed = Append(@, "Skipping invalid coordinate row")]

\* DataLoader.load_campus_boundary: the list it returns and the lines it prints
load_campus_boundary(file) ==
    IF ~file.exists
    THEN [exc |-> "none", val |-> <<>>, printed |-> <<"Boundaries file not found">>]
    ELSE LET read == ReadRows(file.rows, Len(file.rows))
         IN  [exc |-> "none", val |-> read.poly,
              printed |-> Append(read.printed, "Loaded boundary points")]

---------------------------------------------------------------------------
(* The boundary files and rows the loader is run on *)

NumberToks == {Dec(n) : n \in Numbers} \cup {Whole(n) : n \in Numbers}

\* "POINT(<a> <b>)"
PointText(a, b) == <<Tok("POINT"), Tok("("), a, WS, b, Tok(")")>>

WktTexts ==
    {PointText(a, b) : a, b \in NumberToks}
    \cup {<<Tok("point"), WS, Tok("("), WS, Dec(a), WS, WS, Dec(b), WS, Tok(")")>> :
            a, b \in Numbers}
    \cup {<<Tok("POINT"), Tok("("), Dec(a), Tok(","), Dec(b), Tok(")")>> : a, b \in Numbers}
    \cup {<<Tok("x"), WS, Dec(a), Tok(","), WS, Dec(b), WS, Dec(a)>> : a, b \in Numbers}
    \cup {<<>>, <<WS>>, <<Tok("x")>>, <<Dec(1)>>, <<Dec(0), Tok("x"), Dec(1)>>}

FieldValues ==
    {None, Str(<<>>), Str(<<Tok("x")>>)}
    \cup {Str(<<t>>) : t \in NumberToks}
    \cup {Str(<<WS, Dec(n), WS>>) : n \in Numbers}

\* A row with none of the columns the loader reads
NoColumns ==
    [WKT |-> None, wkt |-> None, lat |-> None, latitude |-> None, y |-> None,
     lon |-> None, longitude |-> None, x |-> None]

LatColumns == {"lat", "latitude", "y"}
LonColumns == {"lon", "longitude", "x"}

\* The rows whose WKT column, where they have one, holds one of the texts
Rows(texts) ==
    {[NoColumns EXCEPT !.WKT = wkt, !.lat = lat, !.lon = lon] :
        wkt \in {None} \cup {Str(t) : t \in texts}, lat \in FieldValues, lon \in FieldValues}
    \cup {[NoColumns EXCEPT !.WKT = upper, !.wkt = Str(t)] :
            upper \in {None, Str(<<>>), Str(<<Tok("x")>>)},
            t \in {PointText(Dec(a), Dec(b)) : a, b \in Numbers}}
    \cup {[NoColumns EXCEPT ![latColumn] = Str(<<Dec(a)>>), ![lonColumn] = Str(<<Dec(b)>>)] :
            latColumn \in LatColumns, lonColumn \in LonColumns, a \in Numbers, b \in Numbers}
    \cup {[NoColumns EXCEPT !.lat = lat, !.latitude = latitude, !.y = y, !.lon = Str(<<Dec(0)>>)] :
            lat \in {None, Str(<<>>), Str(<<Dec(-1)>>)},
            latitude \in {None, Str(<<>>), Str(<<Dec(0)>>)},
            y \in {None, Str(<<>>), Str(<<Dec(1)>>)}}
    \cup {[NoColumns EXCEPT !.lon = lon, !.longitude = longitude, !.x = x, !.lat = Str(<<Dec(0)>>)] :
            lon \in {None, Str(<<>>), Str(<<Dec(-1)>>)},
            longitude \in {None, Str(<<>>), Str(<<Dec(0)>>)},
            x \in {None, Str(<<>>), Str(<<Dec(1)>>)}}

\* The rows a file is made of: three that parse, to the vertices (-1, 1),
\* (0, 1) and (1, 0), two that do not, and a failure of the reader
FileRows ==
    {[NoColumns EXCEPT !.WKT = Str(PointText(Dec(1), Dec(-1)))],
     [NoColumns EXCEPT !.lat = Str(<<Dec(0)>>), !.lon = Str(<<Dec(1)>>)],
     [NoColumns EXCEPT !.y = Str(<<Whole(1)>>), !.x = Str(<<Whole(0)>>)],
     [NoColumns EXCEPT !.lat = Str(<<Tok("x")>>), !.lon = Str(<<Dec(1)>>)],
     [NoColumns EXCEPT !.WKT = Str(<<Tok("x")>>)],
     ReaderError}

MissingFile == [exists |-> FALSE, rows |-> <<>>]
BoundaryFiles ==
    {MissingFile} \cup {[exists |-> TRUE, rows |-> rows] : rows \in SeqsUpTo(FileRows, MaxRows)}

InitStatic ==
    /\ campus_boundary = <<>>
    /\ unit = 1
    /\ rooms = <<>>
    /\ call = NoCall
    /\ ret = NoRet
    /\ pc = "api"
    /\ gps = None
    /\ access = NoRet
    /\ session_location = None
    /\ name_list = <<>>
    /\ requests = <<>>

CallParseCoordinateRow ==
    /\ call = NoCall
    /\ \E row \in Rows(WktTexts) :
            /\ call' = [op |-> "_parse_coordinate_row", row |-> row]
            /\ ret' = parse_coordinate_row(row)
            /\ UNCHANGED <<campus_boundary, unit, rooms, pc, gps, access, session_location, name_list, requests>>

CallLoadCampusBoundary ==
    /\ call = NoCall
    /\ \E file \in BoundaryFiles :
            /\ call' = [op |-> "load_campus_boundary", file |-> file]
            /\ ret' = load_campus_boundary(file)
            /\ UNCHANGED <<campus_boundary, unit, rooms, pc, gps, access, session_location, name_list, requests>>

NextBoundary ==
    \/ CallParseCoordinateRow
    \/ CallLoadCampusBoundary

SpecBoundary == InitStatic /\ [][NextBoundary]_vars

---------------------------------------------------------------------------
(* streamlit_app.load_boundary: the loader of the script, on the same files *)

\* The body of the loop of load_boundary: the vertex of the row, or the
\* exception the except clause catches
load_boundary_row(row) ==
    LET wkt == strip(Or(Or(row.WKT, row.wkt), Str(<<>>)).str)
        strict == SearchPoint(wkt)
        m == IF strict # None THEN strict ELSE SearchPair(wkt)
        lat == Or(Or(row.lat, row.latitude), row.y)
        lon == Or(Or(row.lon, row.longitude), row.x)
    IN  IF wkt # <<>>
        THEN IF m = None THEN Raised("ValueError")
             ELSE Returned(<<float(<<m.some[1]>>).val, float(<<m.some[2]>>).val>>)
        ELSE IF lat = None THEN Raised("TypeError")
        ELSE IF float(lat.str).exc # "none" THEN Raised("ValueError")
        ELSE IF lon = None THEN Raised("TypeError")
        ELSE IF float(lon.str).exc # "none" THEN Raised("ValueError")
        ELSE Returned(<<float(lat.str).val, float(lon.str).val>>)

\* The loop of load_boundary over the first n rows: the polygon so far, and
\* whether the reader has raised
RECURSIVE LoadBoundaryRows(_, _)
LoadBoundaryRows(entries, n) ==
    IF n = 0 THEN [poly |-> <<>>, failed |-> FALSE]
    ELSE LET before == LoadBoundaryRows(entries, n - 1)
         IN  IF before.failed THEN before
             ELSE IF entries[n] = ReaderError THEN [before EXCEPT !.failed = TRUE]
             ELSE IF load_boundary_row(entries[n]).exc = "none"
             THEN [before EXCEPT !.poly = Append(@, load_boundary_row(entries[n]).val)]
             ELSE before

\* streamlit_app.load_boundary: the list it returns, or the exception of the
\* reader, which nothing catches
load_boundary(file) ==
    IF ~file.exists THEN Returned(<<>>)
    ELSE LET read == LoadBoundaryRows(file.rows, Len(file.rows))
         IN  IF read.failed THEN Raised("csv.Error") ELSE Returned(read.poly)

CallLoadBoundary ==
    /\ call = NoCall
    /\ \E file \in BoundaryFiles :
            /\ call' = [op |-> "load_boundary", file |-> file]
            /\ ret' = load_boundary(file)
            /\ UNCHANGED <<campus_boundary, unit, rooms, pc, gps, access, session_location,
                           name_list, requests>>

NextLoadBoundary == CallLoadBoundary

SpecLoadBoundary == InitStatic /\ [][NextLoadBoundary]_vars

\* C30: on every boundary file streamlit_app.load_boundary returns the
\* vertex sequence DataLoader.load_campus_boundary returns: the same rows
\* kept, the same (lat, lon) for each, in the same order.
C30_LoadersAgree ==
    call.op = "load_boundary" =>
        /\ ret.exc = "none"
        /\ ret.val = load_campus_boundary(call.file).val

---------------------------------------------------------------------------
(* Claims about the boundary loader *)

ParseRowCalled == call.op = "_parse_coordinate_row"
LoadBoundaryCalled == call.op = "load_campus_boundary"

\* C13: a row whose WKT field is POINT(<lon> <lat>) yields the vertex
\* (lat, lon): the two numbers of the text, swapped.
C13_WktPointSwapped ==
    ParseRowCalled =>
        \A lon, lat \in NumberToks :
            call.row.WKT = Str(PointText(lon, lat)) => ret = Returned(<<lat.v, lon.v>>)

\* The first of the fields that is neither absent nor empty, or None
RECURSIVE FirstNonEmpty(_)
FirstNonEmpty(fields) ==
    IF fields = <<>> THEN None
    ELSE IF fields[1] # None /\ fields[1] # Str(<<>>) THEN fields[1]
    ELSE FirstNonEmpty(Tail(fields))

\* The two numbers the WKT field of the row yields, as written: those of
\* the strict POINT pattern, else those of the fallback pattern, else None
WktNumbers(row) ==
    LET field == FirstNonEmpty(<<row.WKT, row.wkt>>)
    IN  IF field = None THEN None
        ELSE IF SearchPoint(strip(field.str)) # None THEN SearchPoint(strip(field.str))
        ELSE SearchPair(strip(field.str))

\* The floats the lat/lon columns of the row yield, or None
ColumnNumbers(row) ==
    LET lat == FirstNonEmpty(<<row.lat, row.latitude, row.y>>)
        lon == FirstNonEmpty(<<row.lon, row.longitude, row.x>>)
    IN  IF lat = None \/ lon = None THEN None
        ELSE IF float(lat.str).exc # "none" \/ float(lon.str).exc # "none" THEN None
        ELSE Some(<<float(lat.str).val, float(lon.str).val>>)

\* C24: a WKT field that yields two numbers decides the vertex whatever the
\* lat/lon columns hold; otherwise the first non-empty of lat, latitude, y
\* and of lon, longitude, x decide it; the row fails, with ValueError or
\* TypeError, only when neither yields two floats.
C24_ParsePriority ==
    ParseRowCalled =>
        LET wkt == WktNumbers(call.row)
            columns == ColumnNumbers(call.row)
        IN  /\ wkt # None => ret = Returned(<<wkt.some[2].v, wkt.some[1].v>>)
            /\ (wkt = None /\ columns # None) => ret = Returned(columns.some)
            /\ (wkt = None /\ columns = None) => ret.exc \in {"ValueError", "TypeError"}

\* A row was parsed whose WKT field and whose lat/lon columns yield
\* different vertices, and the vertex is that of the WKT field
C24_Witness ==
    /\ ParseRowCalled
    /\ WktNumbers(call.row) # None
    /\ ColumnNumbers(call.row) # None
    /\ ColumnNumbers(call.row).some # ret.val
    /\ ret = Returned(<<WktNumbers(call.row).some[2].v, WktNumbers(call.row).some[1].v>>)

\* The numbers written with a decimal point in the text, in their order
Decimals(text) == SelectSeq(text, LAMBDA token : token.t = "dec")

\* C25: when the WKT field of a row does not match the strict
\* POINT(<lon> <lat>) pattern, the first two decimal numbers found in the
\* field are taken as lon and lat, in that order, and the vertex (lat, lon)
\* is produced.
C25_FallbackFirstTwoDecimals ==
    ParseRowCalled =>
        LET field == FirstNonEmpty(<<call.row.WKT, call.row.wkt>>)
            text == IF field = None THEN <<>> ELSE strip(field.str)
            found == Decimals(text)
        IN  (SearchPoint(text) = None /\ Len(found) >= 2)
                => ret = Returned(<<found[2].v, found[1].v>>)

\* The rows the reader delivers: those before its first failure
Delivered(rows) ==
    {i \in 1..Len(rows) : \A k \in 1..i : rows[k] # ReaderError}
Parsed(rows) == {i \in Delivered(rows) : parse_coordinate_row(rows[i]).exc = "none"}
Unparsed(rows) == Delivered(rows) \ Parsed(rows)

\* C14: in a file that exists, a row from which no coordinate pair can be
\* parsed is skipped without an exception, and every row that parses, before
\* it and after it, has its vertex in the result.
C14_BadRowSkipped ==
    (LoadBoundaryCalled /\ call.file.exists /\ Unparsed(call.file.rows) # {}) =>
        /\ ret.exc = "none"
        /\ Len(ret.val) = Cardinality(Parsed(call.file.rows))
        /\ \A i \in Parsed(call.file.rows) :
               \E k \in 1..Len(ret.val) : ret.val[k] = parse_coordinate_row(call.file.rows[i]).val

\* A row that does not parse lies between two that do, and both vertices
\* were returned
C14_Witness ==
    /\ LoadBoundaryCalled
    /\ \E i, j, k \in 1..Len(call.file.rows) :
           /\ i < j /\ j < k
           /\ i \in Parsed(call.file.rows)
           /\ j \in Unparsed(call.file.rows)
           /\ k \in Parsed(call.file.rows)
    /\ Len(ret.val) = 2
    /\ ret.val[1] # ret.val[2]

\* C15: the vertices of the result are those of the rows that parse, in the
\* order of the rows: the k-th vertex is that of the k-th such row, whether
\* or not it repeats an earlier vertex.
C15_SourceOrder ==
    LoadBoundaryCalled =>
        LET rows == call.file.rows
            rank(i) == Cardinality({j \in Parsed(rows) : j <= i})
        IN  /\ Len(ret.val) = Cardinality(Parsed(rows))
            /\ \A i \in Parsed(rows) : ret.val[rank(i)] = parse_coordinate_row(rows[i]).val

\* Three vertices were returned, the first again as the third, the second
\* different and smaller
C15_Witness ==
    /\ LoadBoundaryCalled
    /\ Len(ret.val) = 3
    /\ ret.val[1] = ret.val[3]
    /\ ret.val[2][1] < ret.val[1][1]

\* C16: for a file that does not exist load_campus_boundary returns an empty
\* sequence and a signal by which its caller tells this from a file that is
\* present and has no valid rows: what it returns differs in the two cases.
C16_UnavailableSignalled ==
    (LoadBoundaryCalled /\ ~call.file.exists) =>
        /\ ret.exc = "none"
        /\ ret.val = <<>>
        /\ \A file \in BoundaryFiles :
               (file.exists /\ Parsed(file.rows) = {}) =>
                   <<ret.exc, ret.val>>
                       # <<load_campus_boundary(file).exc, load_campus_boundary(file).val>>

---------------------------------------------------------------------------
(* The rooms files the loader is run on *)

\* The items of a JSON list: record objects with a str name, one without a
\* name, ones with a floor, ones whose name is not a str, and values that
\* are not objects
RoomItems ==
    {RoomObject(JStr(name), Absent, Absent, Absent) : name \in Strings}
    \cup {RoomObject(Absent, Absent, Absent, Absent),
          RoomObject(JStr(<<97>>), JNum(2), JNum(1), JNum(0)),
          RoomObject(JStr(<<97>>), JNull, JNull, Absent),
          RoomObject(JStr(<<97>>), JStr(<<65>>), Absent, Absent),
          RoomObject(JNum(5), Absent, Absent, Absent),
          RoomObject(JNull, Absent, Absent, Absent),
          JNum(1), JNull, JStr(<<97>>), JList(<<>>)}

\* The files whose JSON lists have at most maxItems items
RoomsFiles(maxItems) ==
    {[state |-> "missing"], [state |-> "invalid_json"]}
    \cup {[state |-> "json", value |-> value] :
            value \in {JNum(5), JNull, JStr(<<>>), JStr(<<97>>), JObject(<<>>),
                       JObject([rooms |-> JList(<<>>)])}}
    \cup {[state |-> "json", value |-> JList(items)] : items \in SeqsUpTo(RoomItems, maxItems)}

CallLoadRooms ==
    /\ call = NoCall
    /\ \E file \in RoomsFiles(MaxRooms) :
            /\ call' = [op |-> "load_rooms", file |-> file]
            /\ ret' = load_rooms_from(file)
            /\ UNCHANGED <<campus_boundary, unit, rooms, pc, gps, access, session_location, name_list, requests>>

NextRooms == CallLoadRooms

SpecRooms == InitStatic /\ [][NextRooms]_vars

---------------------------------------------------------------------------
(* Claims about load_rooms *)

LoadRoomsCalled == call.op = "load_rooms"

\* The file holds a JSON list whose items are all record objects
IsListOfRecords(file) ==
    /\ file.state = "json"
    /\ file.value.json = "list"
    /\ \A i \in 1..Len(file.value.items) : file.value.items[i].json = "object"

\* C17: load_rooms returns an empty sequence, and raises nothing, when the
\* file is missing, when it is not valid JSON, and when its JSON value is
\* not a list of record objects.
C17_LoadFailuresReturnEmpty ==
    (LoadRoomsCalled /\ ~IsListOfRecords(call.file)) => ret = Returned(<<>>)

\* C18: on a list of record objects load_rooms returns one Room per record,
\* ascending by lower-cased room name, records of equal lower-cased name in
\* their source order.
C18_SortedStable ==
    (LoadRoomsCalled /\ IsListOfRecords(call.file)
        /\ \A i \in 1..Len(call.file.value.items) : HasStrName(call.file.value.items[i])) =>
        LET items == call.file.value.items
            n == Len(items)
        IN  /\ ret.exc = "none"
            /\ Len(ret.val) = n
            /\ AscendingByName(ret.val)
            /\ \E from \in [1..n -> 1..n] :
                  /\ \A k, l \in 1..n : k # l => from[k] # from[l]
                  /\ \A k \in 1..n : ret.val[k] = MakeRoom(items[from[k]])
                  /\ \A k, l \in 1..n :
                         (k < l /\ NameKey(ret.val[k]) = NameKey(ret.val[l])) => from[k] < from[l]

\* Records named "a" and "A", in this order, came back in this order
C18_Witness ==
    /\ LoadRoomsCalled
    /\ IsListOfRecords(call.file)
    /\ ret.exc = "none"
    /\ Len(call.file.value.items) = 2
    /\ room_names(ret.val) = <<<<97>>, <<65>>>>

\* The string form of a JSON string or whole number
StrOf(value) == IF value.json = "string" THEN value.s ELSE Digits(value.n)

\* The room is the record normalized: a string floor, "" for a missing or
\* null one; "" for a missing name or building; None for a missing lat or lon
Normalized(room, record) ==
    /\ room.floor = IF "floor" \notin Keys(record) \/ record.fields["floor"] = JNull
                    THEN <<>>
                    ELSE StrOf(record.fields["floor"])
    /\ "room_name" \notin Keys(record) => room.room_name = <<>>
    /\ "building" \notin Keys(record) => room.building = <<>>
    /\ "lat" \notin Keys(record) => room.lat = None
    /\ "lon" \notin Keys(record) => room.lon = None

\* C26: every Room load_rooms produces has a string floor, "" for a missing
\* or null floor and the string form of any other; a missing room_name or
\* building is "", a missing lat or lon is None.
C26_FloorNormalized ==
    (LoadRoomsCalled /\ IsListOfRecords(call.file) /\ ret.exc = "none") =>
        LET items == call.file.value.items
            n == Len(items)
        IN  /\ Len(ret.val) = n
            /\ \E from \in [1..n -> 1..n] :
                  /\ \A k, l \in 1..n : k # l => from[k] # from[l]
                  /\ \A k \in 1..n : Normalized(ret.val[k], items[from[k]])

\* Rooms came back from a record with the floor 2 and a record with a null
\* floor and no lon: with the floors "2" and ""
C26_Witness ==
    /\ LoadRoomsCalled
    /\ IsListOfRecords(call.file)
    /\ ret.exc = "none"
    /\ \E i \in 1..Len(call.file.value.items) :
           call.file.value.items[i].fields["floor"] = JNum(2)
    /\ \E i \in 1..Len(call.file.value.items) :
           /\ call.file.value.items[i].fields["floor"] = JNull
           /\ "lon" \notin Keys(call.file.value.items[i])
    /\ {ret.val[k].floor : k \in 1..Len(ret.val)} = {<<50>>, <<>>}

---------------------------------------------------------------------------
(* RouteCalculator.get_walking_route.  The numbers of a route are in       *)
(* tenths: the distance 12345 is 1234.5 m, the duration 6150 is 615 s.     *)
(* In a RouteInfo distance_km is in hundredths of a kilometre and          *)
(* duration_minutes in tenths of a minute.                                 *)

\* "routes"
ROUTES == <<114, 111, 117, 116, 101, 115>>

\* round(x, ndigits) that rounds every tie upwards
round_half_up(num, den, exact, above) ==
    IF 2 * (num % den) < den THEN num \div den ELSE (num \div den) + 1

\* round(x, ndigits) of the float x nearest to num/den, in units of the last
\* digit kept.  Python rounds the binary value of x correctly: off a tie to
\* the nearest unit; on a tie that x holds exactly to the even unit; and
\* where num/den is a tie that no float holds exactly, to the side on which
\* the nearest float lies (above or not).
round(num, den, exact, above) ==
    LET floor == num \div den
        rest == num % den
    IN  IF 2 * rest < den THEN floor
        ELSE IF 2 * rest > den THEN floor + 1
        ELSE IF exact THEN (IF floor % 2 = 0 THEN floor ELSE floor + 1)
        ELSE IF above THEN floor + 1 ELSE floor

\* distance / 1000 and duration / 60 are binary fractions, so exact floats,
\* when the tenths are a multiple of 625 and of 75
ExactKm(distance) == distance % 625 = 0
ExactMinutes(duration) == duration % 75 = 0

\* not data
Falsy(value) ==
    \/ value.json = "null"
    \/ value.json = "number" /\ value.n = 0
    \/ value.json = "string" /\ value.s = <<>>
    \/ value.json = "list" /\ value.items = <<>>
    \/ value.json = "object" /\ Keys(value) = {}

IsNumber(value) == value.json = "number"

\* RouteInfo(...) of the route object route_data, its arguments evaluated in
\* their order: the RouteInfo, or the first exception
MakeRouteInfo(route_data, above) ==
    IF route_data.json # "object" THEN Raised("TypeError")
    ELSE IF "distance" \notin Keys(route_data) THEN Raised("KeyError")
    ELSE IF ~IsNumber(route_data.fields["distance"]) THEN Raised("TypeError")
    ELSE IF "duration" \notin Keys(route_data) THEN Raised("KeyError")
    ELSE IF ~IsNumber(route_data.fields["duration"]) THEN Raised("TypeError")
    ELSE IF "geometry" \notin Keys(route_data) THEN Raised("KeyError")
    ELSE LET distance == route_data.fields["distance"].n
             duration == route_data.fields["duration"].n
         IN  Returned([distance_km |-> round(distance, 100, ExactKm(distance), above),
                       duration_minutes |-> round(duration, 60, ExactMinutes(duration), above),
                       geometry |-> route_data.fields["geometry"]])

\* The body of the try block that takes the last of the routes
RouteFromDataLast(data, above) ==
    IF Falsy(data) THEN Returned(None)
    ELSE IF data.json = "number" THEN Raised("TypeError")
    ELSE IF data.json = "string"
    THEN IF Contains(data.s, ROUTES) THEN Raised("TypeError") ELSE Returned(None)
    ELSE IF data.json = "list"
    THEN IF \E i \in 1..Len(data.items) : data.items[i] = JStr(ROUTES)
         THEN Raised("TypeError") ELSE Returned(None)
    ELSE IF "routes" \notin Keys(data) THEN Returned(None)
    ELSE LET routes == data.fields["routes"]
         IN  IF routes.json \in {"null", "number"} THEN Raised("TypeError")
             ELSE IF Falsy(routes) THEN Returned(None)
             ELSE IF routes.json = "object" THEN Raised("KeyError")
             ELSE IF routes.json = "string" THEN Raised("TypeError")
             ELSE MakeRouteInfo(routes.items[Len(routes.items)], above)

\* The body of the try block from data = response.json() on
RouteFromData(data, above) ==
    IF Falsy(data) THEN Returned(None)
    ELSE IF data.json = "number" THEN Raised("TypeError")
    ELSE IF data.json = "string"
    THEN IF Contains(data.s, ROUTES) THEN Raised("TypeError") ELSE Returned(None)
    ELSE IF data.json = "list"
    THEN IF \E i \in 1..Len(data.items) : data.items[i] = JStr(ROUTES)
         THEN Raised("TypeError") ELSE Returned(None)
    ELSE IF "routes" \notin Keys(data) THEN Returned(None)
    ELSE LET routes == data.fields["routes"]
         IN  IF routes.json \in {"null", "number"} THEN Raised("TypeError")
             ELSE IF Falsy(routes) THEN Returned(None)
             ELSE IF routes.json = "object" THEN Raised("KeyError")
             ELSE IF routes.json = "string" THEN Raised("TypeError")
             ELSE MakeRouteInfo(routes.items[1], above)

\* RouteCalculator.get_walking_route on the response the routing service
\* gives to the one request: what it returns, or the exception that leaves it
get_walking_route(response, above) ==
    IF response.kind \in {"connection_error", "timeout", "http_error", "invalid_json"}
    THEN Returned(None)
    ELSE LET outcome == RouteFromData(response.data, above)
         IN  IF outcome.exc \in {"KeyError", "ValueError"} THEN Returned(None) ELSE outcome

---------------------------------------------------------------------------
(* The responses of the routing service *)

Distances == (12345 - MaxDeviation)..(12345 + MaxDeviation)
Durations == (6150 - MaxDeviation)..(6150 + MaxDeviation)

\* geometry of a route: a GeoJSON object
Geometry == JObject([coordinates |-> JList(<<>>)])

RouteObject(distance, duration, geometry) ==
    JObject([distance |-> distance, duration |-> duration, geometry |-> geometry])

GoodRoutes(distances, durations) ==
    {RouteObject(JNum(distance), JNum(duration), Geometry) :
        distance \in distances, duration \in durations}

BadRoutes ==
    {RouteObject(distance, duration, geometry) :
        distance \in {Absent, JNull, JStr(<<49>>), JNum(12345)},
        duration \in {Absent, JNull, JNum(6150)},
        geometry \in {Absent, JNull, Geometry}}
    \cup {JNum(5), JNull, JStr(<<97>>), JList(<<>>)}

RouteLists(distances, durations) ==
    {<<>>}
    \cup {<<route>> : route \in GoodRoutes(distances, durations) \cup BadRoutes}
    \cup {<<route, RouteObject(JNum(10), JNum(10), JNull)>> :
            route \in GoodRoutes(distances, durations)}

\* The responses whose well-formed routes have these distances and durations
Responses(distances, durations) ==
    {[kind |-> "connection_error"], [kind |-> "timeout"], [kind |-> "http_error"],
     [kind |-> "invalid_json"]}
    \cup {[kind |-> "json", data |-> data] :
            data \in {JNull, JNum(0), JNum(5), JStr(<<>>), JStr(<<97>>), JStr(ROUTES),
                      JList(<<>>), JList(<<JNum(1)>>), JList(<<JStr(ROUTES)>>),
                      JObject(<<>>), JObject([code |-> JStr(<<97>>)])}}
    \cup {[kind |-> "json", data |-> JObject([routes |-> routes])] :
            routes \in {JNull, JNum(5), JStr(<<>>), JStr(<<97>>), JObject(<<>>),
                        JObject([a |-> JNum(1)])}}
    \cup {[kind |-> "json", data |-> JObject([routes |-> JList(routes)])] :
            routes \in RouteLists(distances, durations)}

CallGetWalkingRoute ==
    /\ call = NoCall
    /\ \E response \in Responses(Distances, Durations), above \in BOOLEAN :
            /\ call' = [op |-> "get_walking_route", response |-> response]
            /\ ret' = get_walking_route(response, above)
            /\ UNCHANGED <<campus_boundary, unit, rooms, pc, gps, access, session_location, name_list, requests>>

NextRoute == CallGetWalkingRoute

SpecRoute == InitStatic /\ [][NextRoute]_vars

---------------------------------------------------------------------------
(* Claims about get_walking_route *)

RouteCalled == call.op = "get_walking_route"

\* The response is JSON whose routes is a non-empty list
HasRouteList(response) ==
    /\ response.kind = "json"
    /\ response.data.json = "object"
    /\ "routes" \in Keys(response.data)
    /\ response.data.fields["routes"].json = "list"
    /\ response.data.fields["routes"].items # <<>>

FirstRoute(response) == response.data.fields["routes"].items[1]

\* The first route is an object with a number for its distance, a number
\* for its duration, and a geometry
IsSuccess(response) ==
    /\ HasRouteList(response)
    /\ FirstRoute(response).json = "object"
    /\ {"distance", "duration", "geometry"} \subseteq Keys(FirstRoute(response))
    /\ IsNumber(FirstRoute(response).fields["distance"])
    /\ IsNumber(FirstRoute(response).fields["duration"])

\* On success distance_km is the nearest hundredth of a kilometre to
\* distance / 1000 and duration_minutes the nearest tenth of a minute to
\* duration / 60
NearestUnits ==
    LET distance == FirstRoute(call.response).fields["distance"].n
        duration == FirstRoute(call.response).fields["duration"].n
        km == ret.val.distance_km
        minutes == ret.val.duration_minutes
    IN  /\ ret.exc = "none"
        /\ ret.val # None
        /\ 2 * (100 * km - distance) <= 100 /\ 2 * (distance - 100 * km) <= 100
        /\ 2 * (60 * minutes - duration) <= 60 /\ 2 * (duration - 60 * minutes) <= 60

IsExample ==
    /\ FirstRoute(call.response).fields["distance"].n = 12345
    /\ FirstRoute(call.response).fields["duration"].n = 6150

\* C19 as stated: on success distance_km is distance / 1000 rounded to 2
\* decimals and duration_minutes is duration / 60 rounded to 1 decimal; for
\* distance 1234.5 and duration 615 they are 1.23 and 10.3.
C19_RoundedAsStated ==
    (RouteCalled /\ IsSuccess(call.response)) =>
        /\ NearestUnits
        /\ IsExample => (ret.val.distance_km = 123 /\ ret.val.duration_minutes = 103)

\* C19, amended: on success distance_km is distance / 1000 rounded to 2
\* decimals and duration_minutes is duration / 60 rounded to 1 decimal; for
\* distance 1234.5 and duration 615 they are 1.23 and 10.2 (615 / 60 is
\* exactly 10.25, a tie, which round takes to the even digit).
C19_Rounded ==
    (RouteCalled /\ IsSuccess(call.response)) =>
        /\ NearestUnits
        /\ IsExample => (ret.val.distance_km = 123 /\ ret.val.duration_minutes = 102)

\* The route of the example was returned
C19_Witness ==
    /\ RouteCalled
    /\ IsSuccess(call.response)
    /\ IsExample
    /\ ret.val # None
    /\ ret.val.distance_km = 123
    /\ ret.val.duration_minutes = 102

\* C20: whatever fails (the request, the status, the JSON, an empty or
\* absent route list, a route without distance, duration or geometry, any
\* other malformed response), get_walking_route returns None and raises
\* nothing.
C20_FailuresReturnNone ==
    (RouteCalled /\ ~IsSuccess(call.response)) => ret = Returned(None)

\* The response with the first of its routes alone
FirstRouteOnly(response) ==
    [kind |-> "json", data |-> JObject([routes |-> JList(<<FirstRoute(response)>>)])]

\* C27: when the response lists one or more routes the result is made from
\* the first route only, the later routes change nothing in it, and its
\* geometry is the geometry value of the first route, unchanged.
C27_FirstRouteOnly ==
    (RouteCalled /\ HasRouteList(call.response)) =>
        /\ ret \in {get_walking_route(FirstRouteOnly(call.response), above) :
                        above \in BOOLEAN}
        /\ IsSuccess(call.response) =>
               /\ ret.exc = "none"
               /\ ret.val # None
               /\ ret.val.geometry = FirstRoute(call.response).fields["geometry"]

\* The route of the example was returned from a response that lists a
\* second route
C27_Witness ==
    /\ RouteCalled
    /\ HasRouteList(call.response)
    /\ Len(call.response.data.fields["routes"].items) = 2
    /\ call.response.data.fields["routes"].items[2] # FirstRoute(call.response)
    /\ IsExample
    /\ ret.val.distance_km = 123
    /\ ret.val.geometry = Geometry

---------------------------------------------------------------------------
(* Successive calls of get_walking_route.  A call sends its request with   *)
(* requests.get(url, timeout=timeout) and waits inside it; the wait ends    *)
(* with the answer of the service or, the timeout elapsed, with the         *)
(* exception requests.exceptions.Timeout.                                    *)

\* Calls of get_walking_route in one behaviour
MaxCalls == 3

ROUTE_TIMEOUT == 5
Timeouts == {1, ROUTE_TIMEOUT}

InitRouteCalls ==
    /\ campus_boundary = <<>>
    /\ unit = 1
    /\ rooms = <<>>
    /\ call = [op |-> "get_walking_route", n |-> 0]
    /\ ret = NoRet
    /\ pc = "api"
    /\ gps = None
    /\ access = NoRet
    /\ session_location = None
    /\ name_list = <<>>
    /\ requests = <<>>

\* The call up to and into requests.get: the one request goes out
BeginGetWalkingRoute ==
    /\ pc = "api"
    /\ call.n < MaxCalls
    /\ \E timeout \in Timeouts :
            /\ call' = [op |-> "get_walking_route", n |-> call.n + 1, timeout |-> timeout]
            /\ requests' = Append(requests, [call |-> call.n + 1, timeout |-> timeout])
    /\ pc' = "requests.get"
    /\ ret' = NoRet
    /\ UNCHANGED <<campus_boundary, unit, rooms, gps, access, session_location, name_list>>

\* requests.get ends, the rest of the call runs and the call ends
EndGetWalkingRoute ==
    /\ pc = "requests.get"
    /\ \E response \in Responses({12345}, {6150}), above \in BOOLEAN :
            /\ call' = [op |-> "get_walking_route", n |-> call.n, timeout |-> call.timeout,
                        response |-> response]
            /\ ret' = get_walking_route(response, above)
    /\ pc' = "api"
    /\ UNCHANGED <<campus_boundary, unit, rooms, gps, access, session_location, name_list,
                   requests>>

NextRouteCalls ==
    \/ BeginGetWalkingRoute
    \/ EndGetWalkingRoute

SpecRouteCalls == InitRouteCalls /\ [][NextRouteCalls]_vars

\* The call in progress, or ended last, sent exactly one request, with its
\* timeout
OneRequest ==
    /\ Len(requests) = call.n
    /\ call.n > 0 => requests[call.n] = [call |-> call.n, timeout |-> call.timeout]

RouteCallEnded == pc = "api" /\ call.n > 0

\* C21: each call of get_walking_route sends exactly one request, bounded by
\* the timeout given, and then returns a RouteInfo or None, made from the
\* answer to that request alone; it does not retry and reuses no result of
\* an earlier call.
C21_OneRequestThenReturns ==
    /\ OneRequest
    /\ RouteCallEnded =>
        /\ ret.exc = "none"
        /\ ret \in {get_walking_route(call.response, above) : above \in BOOLEAN}

---------------------------------------------------------------------------
(* streamlit_app.py: one run of the script from the test of boundary_poly   *)
(* to the access gate.  campus_boundary is boundary_poly, what load_boundary *)
(* returned; gps is user_coords, what the browser answered.                  *)

InitScript ==
    /\ campus_boundary \in Polygons
    /\ unit \in Units
    /\ rooms = <<>>
    /\ call = NoCall
    /\ ret = NoRet
    /\ pc = "boundary_poly"
    /\ gps = None
    /\ access = NoRet
    /\ session_location = None
    /\ name_list = <<>>
    /\ requests = <<>>

\* if not boundary_poly: st.error(...); st.stop()
ScriptBoundaryTest ==
    /\ pc = "boundary_poly"
    /\ pc' = IF campus_boundary = <<>> THEN "stopped_no_boundary" ELSE "user_coords"
    /\ UNCHANGED <<campus_boundary, unit, rooms, call, ret, gps, access, session_location,
                   name_list, requests>>

\* user_coords = streamlit_js_eval(...): a position, or None
ScriptUserCoords ==
    /\ pc = "user_coords"
    /\ \E user_coords \in Locations \cup {None} : gps' = user_coords
    /\ pc' = "gate"
    /\ UNCHANGED <<campus_boundary, unit, rooms, call, ret, access, session_location,
                   name_list, requests>>

\* if True: the 403 page and st.stop() (the test `if not user_coords` is
\* commented out); the statements after it are never reached
ScriptGate ==
    /\ pc = "gate"
    /\ pc' = "access_denied"
    /\ UNCHANGED <<campus_boundary, unit, rooms, call, ret, gps, access, session_location,
                   name_list, requests>>

NextScript ==
    \/ ScriptBoundaryTest
    \/ ScriptUserCoords
    \/ ScriptGate

SpecScript == InitScript /\ [][NextScript]_vars

\* C29: a run of the script with a non-empty boundary, a position and
\* point_in_polygon true goes on to the room search; the access-denied page
\* and the stop are taken only when there is no position or the position is
\* not inside the polygon.
C29_GateAdmitsInside ==
    pc = "access_denied" =>
        \/ gps = None
        \/ point_in_polygon(gps.lat, gps.lon, campus_boundary, unit) # Returned(TRUE)

---------------------------------------------------------------------------
(* CampusRoomFinderApp: main() constructs the app, which loads the boundary, *)
(* and calls run()                                                            *)

\* UserLocation(lat=-0.748, lon=37.150), the campus centre the app falls back to
CAMPUS_CENTER == [lat |-> "-0.748", lon |-> "37.150"]

\* `not value` is false: the value is neither None nor 0.0
Truthy(value) == value # None /\ value # Some(0)

\* The room lists the flow runs on: none, a room with coordinates, a room
\* on latitude 0.0
RoomAt(lat, lon) ==
    [room_name |-> <<65>>, building |-> <<>>, floor |-> <<>>, lat |-> lat, lon |-> lon]
FlowRooms == {<<>>, <<RoomAt(Some(1), Some(1))>>, <<RoomAt(Some(0), Some(1))>>}

Init ==
    /\ campus_boundary \in Polygons
    /\ unit \in Units
    /\ rooms \in FlowRooms
    /\ call = NoCall
    /\ ret = NoRet
    /\ pc = "run"
    /\ gps = None
    /\ access = NoRet
    /\ session_location = None
    /\ name_list = room_names(rooms)
    /\ requests = <<>>

\* run(): st.stop() without boundary data, else on to _handle_access_control
Run ==
    /\ pc = "run"
    /\ pc' = IF campus_boundary = <<>> THEN "stopped" ELSE "handle_access_control"
    /\ UNCHANGED <<campus_boundary, unit, rooms, call, ret, gps, access, session_location, name_list, requests>>

\* _handle_access_control(): the browser answers with a location or with none;
\* an exception of is_location_valid ends in the handler of main()
HandleAccessControl ==
    /\ pc = "handle_access_control"
    /\ \E user_location \in Locations \cup {None} :
        /\ gps' = user_location
        /\ IF user_location # None
           THEN LET valid == is_location_valid(campus_boundary, user_location, unit)
                IN  /\ access' = valid
                    /\ IF valid.exc # "none"
                       THEN /\ pc' = "application_error"
                            /\ UNCHANGED session_location
                       ELSE /\ pc' = "render_main_interface"
                            /\ session_location' =
                                   IF ~valid.val[1] THEN CAMPUS_CENTER ELSE user_location
           ELSE /\ access' = access
                /\ pc' = "render_main_interface"
                /\ session_location' = CAMPUS_CENTER
    /\ UNCHANGED <<campus_boundary, unit, rooms, call, ret, name_list, requests>>

\* _render_main_interface() -> _render_search_section(): the search box and
\* the results of the engine are rendered
RenderSearchSection ==
    /\ pc = "render_main_interface"
    /\ pc' = "search_section"
    /\ call' = [op |-> "search"]
    /\ UNCHANGED <<campus_boundary, unit, rooms, ret, gps, access, session_location, name_list, requests>>

\* _render_search_section() with a room selected: _calculate_and_display_route
\* asks for the route from st.session_state.user_location when that is set
\* and the room has coordinates
SelectRoom ==
    /\ pc = "search_section"
    /\ \E i \in 1..Len(rooms) :
        IF session_location # None /\ Truthy(rooms[i].lat) /\ Truthy(rooms[i].lon)
        THEN /\ pc' = "route"
             /\ call' = [op |-> "get_walking_route", from |-> session_location,
                         to |-> <<rooms[i].lat, rooms[i].lon>>]
        ELSE /\ pc' = "no_route"
             /\ UNCHANGED call
    /\ UNCHANGED <<campus_boundary, unit, rooms, ret, gps, access, session_location, name_list, requests>>

Next ==
    \/ Run
    \/ HandleAccessControl
    \/ RenderSearchSection
    \/ SelectRoom

Spec == Init /\ [][Next]_vars

\* C1: room search and route calculation are reached only by a user whose
\* location was obtained and for which is_location_valid returned allowed.
C1_SearchOnlyInsideCampus ==
    pc \in {"search_section", "route"} =>
        /\ gps # None
        /\ access = Returned(<<TRUE, "">>)

=============================================================================
